---------------------------- MODULE Spec2Model ----------------------------
(***************************************************************************)
(* A model of the AiAlphaPulse news pipeline: the Deduplicator             *)
(* (src/src/dedup/logic.py), the LLM Enricher (src/src/llm) and the        *)
(* Pipeline Worker (src/pipeline_worker.py).                               *)
(*                                                                         *)
(* Similarities are in hundredths (0.95 is 95), times are in hours, and a  *)
(* host name is the sequence of its dot-separated labels.  An article's    *)
(* link is modelled by the article's normalized id (every link distinct).  *)
(* A PostgreSQL connection is a pair: `db` holds what is committed, `tx`   *)
(* what the Deduplicator's connection sees (committed rows plus its own    *)
(* uncommitted writes).  commit copies tx to db; closing the connection    *)
(* after an exception discards the uncommitted writes.                     *)
(***************************************************************************)
EXTENDS Integers, Sequences, FiniteSets, TLC

(* ------------------------------ bounds ------------------------------- *)
MaxDocs == 2
MaxFails == 1
MaxStream == 3
MaxSkipped == 2
MaxClusters == 2
LlmLimit == 2
MaxRaw == 2
MaxTicks == 1
BatchSize == 1
MaxCount == 2
MaxNews == 2
MaxMonitorTicks == 4
MaxText == 3
MaxMarkdown == 4
MaxEntries == 2
MaxArticles == 4
NormBatch == 2
WideBatch == 2

(* ------------------------- program constants ------------------------- *)
TAU_DUP == 95
TAU_STORY == 89
WINDOW_HOURS == 48
K_NEIGHBORS == 30
DEFAULT_SOURCE_WEIGHT == 50
NOVELTY_HOURS == 6
HOT_NEWS_LIMIT == 20
hotness_threshold == 70

VARIABLES
  norm,      \* normalized_articles: row i has id i
  db,        \* committed rows of vectors, story_clusters, cluster_members, dedup_state
  tx,        \* the same tables as the Deduplicator's open connection sees them
  dd,        \* process_new_batch: its position and local variables
  fails,     \* number of exceptions raised so far
  now,       \* the clock, in hours
  raw,       \* articles (financial_news_view): row i has id i
  nz,        \* run_normalization: its position and local variables
  wk,        \* PipelineWorker.run_cycle: its position and the stage counts
  analyzed,  \* llm_analyzed_news: the rows in insertion order
  en,        \* the enricher workers: process_batch / process_cluster
  bot        \* NewsBot: monitor_hot_news, its tables and the alerts sent

vars == <<norm, db, tx, dd, fails, now, bot, raw, nz, wk, analyzed, en>>
dedupOnly == <<now, bot, raw, nz, wk, analyzed, en>>

(* ----------------------------- inputs -------------------------------- *)
Embs == 1..4
Langs == {"en", "ru"}
PubTimes == {52, 100, 101}
Hosts == {<<"www", "reuters", "com">>, <<"blog", "io">>}
NoCluster == 0
NoUrl == 0
NoTime == 0
NoDomain == <<>>

\* Inner product of two unit embeddings, in hundredths.
Sim(a, b) ==
  IF a = b THEN 100
  ELSE LET p == IF a < b THEN <<a, b>> ELSE <<b, a>> IN
       IF p = <<1, 2>> THEN 95
       ELSE IF p = <<1, 3>> THEN 94
       ELSE IF p = <<2, 3>> THEN 89
       ELSE 88

Min(a, b) == IF a <= b THEN a ELSE b
Max(a, b) == IF a >= b THEN a ELSE b
Abs(x) == IF x < 0 THEN -x ELSE x

_domain(host) ==
  IF Len(host) >= 2 THEN SubSeq(host, Len(host) - 1, Len(host)) ELSE host

Domains == {_domain(h) : h \in Hosts}

SOURCE_WEIGHTS(d) ==
  IF d = <<"sec", "gov">> THEN 100
  ELSE IF d = <<"reuters", "com">> THEN 90
  ELSE IF d = <<"bloomberg", "com">> THEN 90
  ELSE IF d = <<"ft", "com">> THEN 85
  ELSE IF d = <<"wsj", "com">> THEN 85
  ELSE IF d = <<"cnbc", "com">> THEN 80
  ELSE DEFAULT_SOURCE_WEIGHT

_source_weight(host) == SOURCE_WEIGHTS(_domain(host))

(* ------------------------- the dedup tables --------------------------- *)
EmptyTables ==
  [vectors |-> {}, clusters |-> <<>>, members |-> {}, lastVec |-> 0]

\* The locals of process_new_batch.  failedAt names the step that raised;
\* snap records the tables as they were committed when the processing of the
\* current article began (a history variable, read by no action).
IdleDedup ==
  [pc |-> "idle", index |-> <<>>, docs |-> <<>>, i |-> 0, cid |-> NoCluster,
   neighbors |-> <<>>, reason |-> "", processed |-> 0, failedAt |-> "",
   t_doc |-> NoTime,
   snap |-> EmptyTables]

\* load_existing_vectors: the ids of the vectors rows, ascending.
RECURSIVE SortedSeq(_)
SortedSeq(S) ==
  IF S = {} THEN <<>>
  ELSE LET m == CHOOSE x \in S : \A y \in S : x <= y
       IN <<m>> \o SortedSeq(S \ {m})

load_existing_vectors(t) == SortedSeq(t.vectors)

\* Mutant of fetch_new_normalized: ORDER BY id DESC.
RECURSIVE ReverseSeq(_)
ReverseSeq(q) ==
  IF q = <<>> THEN <<>> ELSE Append(ReverseSeq(Tail(q)), Head(q))

fetch_newest_first(last_id) ==
  ReverseSeq(SortedSeq({n \in 1..Len(norm) : n > last_id}))

fetch_new_normalized(last_id) ==
  SortedSeq({n \in 1..Len(norm) : n > last_id})


(* --------------------------- FaissIndex.search ------------------------ *)
\* The inner-product search returns the K best entries by descending
\* similarity; the order among equal similarities is not specified, so every
\* such order is a possible result.  An entry of the index is a normalized id
\* (its vector is the embedding of that article).
Perms(n) ==
  {p \in [1..n -> 1..n] : \A a, b \in 1..n : a # b => p[a] # p[b]}

TopK(index, emb, k) ==
  LET n == Len(index)
      s(j) == Sim(norm[index[j]].emb, emb)
      ok == {p \in Perms(n) : \A a \in 1..(n - 1) : s(p[a]) >= s(p[a + 1])}
  IN {[a \in 1..Min(k, n) |-> <<index[p[a]], s(p[a])>>] : p \in ok}

\* Mutant of search: the article's own vector is left out of the result.
search_skipping_self(index, emb, k) ==
  TopK(SelectSeq(index, LAMBDA x : x # index[Len(index)]), emb, k)

\* neighbors = index.search(v, k_neighbors): the index already holds the
\* article's own vector, so the article is among its neighbours.
search(index, emb, k) == TopK(index, emb, k)

(* ----------------------------- decide_cluster ------------------------- *)
\* SELECT cluster_id FROM cluster_members WHERE normalized_id = nid; fetchone.
\* With several rows the first one stored is taken (the lowest cluster id).
get_cluster_of_doc(t, nid) ==
  LET cs == {m.cid : m \in {x \in t.members : x.nid = nid}}
  IN IF cs = {} THEN NoCluster
     ELSE CHOOSE c \in cs : \A d \in cs : c <= d

InWindow(t_doc, t_n) == Abs(t_doc - t_n) <= WINDOW_HOURS

DupHits(t, neighbors) ==
  {a \in DOMAIN neighbors :
     /\ neighbors[a][2] >= TAU_DUP
     /\ get_cluster_of_doc(t, neighbors[a][1]) # NoCluster}

StoryHits(t, neighbors, lang, t_doc) ==
  {a \in DOMAIN neighbors :
     /\ TAU_STORY <= neighbors[a][2]
     /\ neighbors[a][2] < TAU_DUP
     /\ neighbors[a][1] \in 1..Len(norm)
     /\ norm[neighbors[a][1]].lang = lang
     /\ norm[neighbors[a][1]].t # NoTime
     /\ InWindow(t_doc, norm[neighbors[a][1]].t)
     /\ get_cluster_of_doc(t, neighbors[a][1]) # NoCluster}

First(S) == CHOOSE a \in S : \A b \in S : a <= b

\* Mutant of decide_cluster: the story band does not compare languages.
decide_cluster_any_language(t, neighbors, lang, t_doc) ==
  LET story == {a \in DOMAIN neighbors :
                  /\ TAU_STORY <= neighbors[a][2]
                  /\ neighbors[a][2] < TAU_DUP
                  /\ norm[neighbors[a][1]].t # NoTime
                  /\ InWindow(t_doc, norm[neighbors[a][1]].t)
                  /\ get_cluster_of_doc(t, neighbors[a][1]) # NoCluster}
  IN IF DupHits(t, neighbors) # {}
     THEN [cid |-> get_cluster_of_doc(t, neighbors[First(DupHits(t, neighbors))][1]),
           reason |-> "dup"]
     ELSE IF story # {}
     THEN [cid |-> get_cluster_of_doc(t, neighbors[First(story)][1]),
           reason |-> "story"]
     ELSE [cid |-> NoCluster, reason |-> "new"]

\* Mutant of decide_cluster: the story band does not compare times.
decide_cluster_any_time(t, neighbors, lang, t_doc) ==
  LET story == {a \in DOMAIN neighbors :
                  /\ TAU_STORY <= neighbors[a][2]
                  /\ neighbors[a][2] < TAU_DUP
                  /\ norm[neighbors[a][1]].lang = lang
                  /\ get_cluster_of_doc(t, neighbors[a][1]) # NoCluster}
  IN IF DupHits(t, neighbors) # {}
     THEN [cid |-> get_cluster_of_doc(t, neighbors[First(DupHits(t, neighbors))][1]),
           reason |-> "dup"]
     ELSE IF story # {}
     THEN [cid |-> get_cluster_of_doc(t, neighbors[First(story)][1]),
           reason |-> "story"]
     ELSE [cid |-> NoCluster, reason |-> "new"]

decide_cluster(t, neighbors, lang, t_doc) ==
  IF DupHits(t, neighbors) # {}
  THEN [cid |-> get_cluster_of_doc(t, neighbors[First(DupHits(t, neighbors))][1]),
        reason |-> "dup"]
  ELSE IF StoryHits(t, neighbors, lang, t_doc) # {}
  THEN [cid |-> get_cluster_of_doc(t,
                  neighbors[First(StoryHits(t, neighbors, lang, t_doc))][1]),
        reason |-> "story"]
  ELSE [cid |-> NoCluster, reason |-> "new"]

(* --------------------------- cluster operations ----------------------- *)
NoDomains == [d \in Domains |-> 0]

Range(f) == {f[x] : x \in DOMAIN f}

\* INSERT INTO story_clusters ... VALUES (..., {site: 1}, [url], 0)
ensure_cluster(t, lang, url, site, tm) ==
  [t EXCEPT !.clusters = Append(@,
     [lang |-> lang, first_time |-> tm, last_time |-> tm,
      domains |-> [NoDomains EXCEPT ![site] = 1], urls |-> <<url>>,
      doc_count |-> 0, earliest_url |-> NoUrl, latest_url |-> NoUrl,
      strongest_domain |-> NoDomain, hotness |-> 0])]

\* Mutant of add_member: the high-water mark moves with the member row.
add_member_and_advance(t, cluster_id, normalized_id, url, site, tm) ==
  LET row == [cid |-> cluster_id, nid |-> normalized_id, url |-> url,
              site |-> site, time_utc |-> tm]
      kept == {m \in t.members :
                 ~(m.cid = cluster_id /\ m.nid = normalized_id)}
      c == t.clusters[cluster_id]
  IN [t EXCEPT
        !.members = kept \cup {row},
        !.lastVec = normalized_id,
        !.clusters[cluster_id] =
          [c EXCEPT !.domains[site] = @ + 1,
                    !.urls = IF url \in Range(@) THEN @ ELSE Append(@, url),
                    !.first_time = IF tm < @ THEN tm ELSE @,
                    !.last_time = IF tm > @ THEN tm ELSE @,
                    !.doc_count = @ + 1]]

\* The upsert of the member row, then the read-modify-write of the aggregates.
add_member(t, cluster_id, normalized_id, url, site, tm) ==
  LET row == [cid |-> cluster_id, nid |-> normalized_id, url |-> url,
              site |-> site, time_utc |-> tm]
      kept == {m \in t.members :
                 ~(m.cid = cluster_id /\ m.nid = normalized_id)}
      c == t.clusters[cluster_id]
  IN [t EXCEPT
        !.members = kept \cup {row},
        !.clusters[cluster_id] =
          [c EXCEPT !.domains[site] = @ + 1,
                    !.urls = IF url \in Range(@) THEN @ ELSE Append(@, url),
                    !.first_time = IF tm < @ THEN tm ELSE @,
                    !.last_time = IF tm > @ THEN tm ELSE @,
                    !.doc_count = @ + 1]]

\* SELECT url, site, time_utc ... ORDER BY time_utc: rows[0], rows[-1] and the
\* first row of greatest source weight.  Rows of equal time_utc come in any
\* order, so the result is a set of possible tables.
select_links_and_update(t, cluster_id) ==
  LET rows == {m \in t.members : m.cid = cluster_id}
      early == {m \in rows : \A x \in rows : m.time_utc <= x.time_utc}
      late == {m \in rows : \A x \in rows : m.time_utc >= x.time_utc}
      heavy == {m \in rows :
                  \A x \in rows : _source_weight(m.site) >= _source_weight(x.site)}
      strong == {m \in heavy : \A x \in heavy : m.time_utc <= x.time_utc}
  IN IF rows = {} THEN {t}
     ELSE {[t EXCEPT !.clusters[cluster_id] =
              [@ EXCEPT !.earliest_url = e.url, !.latest_url = l.url,
                        !.strongest_domain = g.site]] :
             e \in early, l \in late, g \in strong}

(* -------------------------------- scoring ----------------------------- *)
\* Factors are in thousandths and hotness in hundred-thousandths.
\* _sigmoid(log(cnt + 1)) = (cnt + 1) / (cnt + 2).
RECURSIVE SumOver(_, _)
SumOver(f, S) ==
  IF S = {} THEN 0
  ELSE LET x == CHOOSE y \in S : TRUE IN f[x] + SumOver(f, S \ {x})

DomainSum(c) == SumOver(c.domains, DOMAIN c.domains)
DomainKeys(c) == {d \in DOMAIN c.domains : c.domains[d] > 0}

RECURSIVE MaxWeight(_)
MaxWeight(S) ==
  IF S = {} THEN 0
  ELSE LET x == CHOOSE y \in S : TRUE
       IN Max(SOURCE_WEIGHTS(_domain(x)), MaxWeight(S \ {x}))

Novelty(first_time, clock) ==
  IF clock - first_time <= NOVELTY_HOURS THEN 1000 ELSE 300

Velocity(cnt) == (1000 * (cnt + 1)) \div (cnt + 2)

\* Mutant of Confirmation: the number of domains, neither divided by four
\* nor capped at one.
confirmation_domain_count(n) == 1000 * n

Confirmation(n) == Min(250 * n, 1000)

Hotness(c, clock) ==
    30 * Novelty(c.first_time, clock)
  + 20 * (10 * MaxWeight(DomainKeys(c)))
  + 20 * Velocity(DomainSum(c))
  + 15 * Confirmation(Cardinality(DomainKeys(c)))
  + 10 * 300
  + 5 * 0

recompute_scores(t, cluster_id, clock) ==
  IF cluster_id \notin DOMAIN t.clusters THEN t
  ELSE [t EXCEPT !.clusters[cluster_id].hotness =
          Hotness(t.clusters[cluster_id], clock)]

(* --------------------------- process_new_batch ------------------------ *)
Doc == dd.docs[dd.i]
DocSite == _domain(norm[Doc].host)

\* Lines 318-338: load the index from the vectors rows, read the
\* high-water mark, fetch the new documents; return 0 if there are none.
DedupStart ==
  /\ dd.pc = "idle"
  /\ LET new_docs == fetch_new_normalized(tx.lastVec) IN
       dd' = [IdleDedup EXCEPT
                !.pc = IF new_docs = <<>> THEN "ret" ELSE "embed",
                !.index = load_existing_vectors(tx),
                !.docs = new_docs,
                !.i = IF new_docs = <<>> THEN 0 ELSE 1,
                !.snap = db]
  /\ UNCHANGED <<norm, db, tx, fails>>

\* Lines 348-357: the publication time, or the clock when the article has
\* none; embed, upsert the vectors row (not yet committed), add the vector to
\* the index.
DedupEmbed ==
  /\ dd.pc = "embed"
  /\ tx' = [tx EXCEPT !.vectors = @ \cup {Doc}]
  /\ dd' = [dd EXCEPT !.pc = "decide", !.index = Append(@, Doc),
                      !.t_doc = IF norm[Doc].t = NoTime THEN now
                                ELSE norm[Doc].t]
  /\ UNCHANGED <<norm, db, fails>>

\* Lines 360-372: search, decide_cluster and, when no cluster was found,
\* ensure_cluster, which commits.
DedupDecide ==
  /\ dd.pc = "decide"
  /\ \E neighbors \in search(dd.index, norm[Doc].emb, K_NEIGHBORS) :
       LET r == decide_cluster(tx, neighbors, norm[Doc].lang, dd.t_doc) IN
         IF r.cid = NoCluster
         THEN /\ tx' = ensure_cluster(tx, norm[Doc].lang, Doc, DocSite, dd.t_doc)
              /\ db' = tx'
              /\ dd' = [dd EXCEPT !.pc = "add", !.cid = Len(tx'.clusters),
                                  !.neighbors = neighbors, !.reason = r.reason]
         ELSE /\ dd' = [dd EXCEPT !.pc = "add", !.cid = r.cid,
                                  !.neighbors = neighbors, !.reason = r.reason]
              /\ UNCHANGED <<tx, db>>
  /\ UNCHANGED <<norm, fails>>

\* Line 375: add_member, which commits.  The neighbours and the reason are
\* not read again.
DedupAddMember ==
  /\ dd.pc = "add"
  /\ tx' = add_member(tx, dd.cid, Doc, Doc, DocSite, dd.t_doc)
  /\ db' = tx'
  /\ dd' = [dd EXCEPT !.pc = "links", !.neighbors = <<>>, !.reason = ""]
  /\ UNCHANGED <<norm, fails>>

\* Line 378: select_links_and_update, which commits.
DedupSelectLinks ==
  /\ dd.pc = "links"
  /\ tx' \in select_links_and_update(tx, dd.cid)
  /\ db' = tx'
  /\ dd' = [dd EXCEPT !.pc = "scores"]
  /\ UNCHANGED <<norm, fails>>

\* Line 379: recompute_scores, which commits.
DedupRecomputeScores ==
  /\ dd.pc = "scores"
  /\ tx' = recompute_scores(tx, dd.cid, now)
  /\ db' = tx'
  /\ dd' = [dd EXCEPT !.pc = "advance"]
  /\ UNCHANGED <<norm, fails>>

\* Lines 381-385: count the document, move the high-water mark, commit; then
\* the next document, or return the count.
DedupAdvance ==
  /\ dd.pc = "advance"
  /\ tx' = [tx EXCEPT !.lastVec = Doc]
  /\ db' = tx'
  /\ dd' = IF dd.i < Len(dd.docs)
           THEN [dd EXCEPT !.pc = "embed", !.i = @ + 1, !.cid = NoCluster,
                           !.t_doc = NoTime,
                           !.neighbors = <<>>, !.reason = "",
                           !.processed = @ + 1, !.snap = tx']
           ELSE [dd EXCEPT !.pc = "ret", !.processed = @ + 1]
  /\ UNCHANGED <<norm, fails>>

InArticle == dd.pc \in {"embed", "decide", "add", "links", "scores", "advance"}

\* A statement of the current step raises (a DB error, an embedder error):
\* nothing of the step is applied, process_new_batch is left by the exception
\* and run_deduplication closes the connection (pipeline_worker.py 94-98),
\* which discards whatever was not committed.
DedupFail ==
  /\ InArticle
  /\ fails < MaxFails
  /\ fails' = fails + 1
  /\ tx' = db
  /\ dd' = [dd EXCEPT !.pc = "ret", !.processed = 0, !.failedAt = dd.pc]
  /\ UNCHANGED <<norm, db>>

DedupStep ==
  \/ DedupEmbed
  \/ DedupDecide
  \/ DedupAddMember
  \/ DedupSelectLinks
  \/ DedupRecomputeScores
  \/ DedupAdvance

(* ------------------------------ LLM Enricher -------------------------- *)
FETCH_BATCH == 50
NoArticle == 0
NoId == 0

\* What the chat-completions call comes back with: a JSON object carrying a
\* hotness (in hundredths, not yet clamped), a text that json.loads rejects,
\* or no answer at all (timeout, 429, connection error).
Responses ==
  {[kind |-> "json", hotness |-> 150],
   [kind |-> "garbage", hotness |-> 0], [kind |-> "timeout", hotness |-> 0]}

\* OpenRouterClient.analyze_news: every path returns a dict.  Lines 247-249
\* (request error), 222-225 (JSONDecodeError), 228-245 (parsed and clamped).
analyze_news(response) ==
  IF response.kind = "timeout"
  THEN [hotness |-> 0, reasoning |-> "request_error"]
  ELSE IF response.kind = "garbage"
  THEN [hotness |-> 0, reasoning |-> "json_parse_error"]
  ELSE [hotness |-> Max(0, Min(100, response.hotness)), reasoning |-> "scored"]

NoAnalysis == [hotness |-> 0, reasoning |-> ""]

HasRow(rows, cluster_id) ==
  \E a \in DOMAIN rows : rows[a].id_cluster = cluster_id

\* Mutant of insert_llm_analyzed_news: the table has no UNIQUE(id_cluster),
\* so the insert never conflicts.
insert_without_unique(rows, data) ==
  [rows |-> Append(rows, data), new_id |-> Len(rows) + 1]

\* INSERT ... ON CONFLICT (id_cluster) DO NOTHING RETURNING id, then commit:
\* the rows afterwards and the id returned (none on conflict).
insert_llm_analyzed_news(rows, data) ==
  IF HasRow(rows, data.id_cluster)
  THEN [rows |-> rows, new_id |-> NoId]
  ELSE [rows |-> Append(rows, data), new_id |-> Len(rows) + 1]

\* The sequences that list the elements of S by descending key; elements of
\* equal key come in any order.
Descending(S, key) ==
  LET base == SortedSeq(S)
      n == Len(base)
  IN {[a \in 1..n |-> base[p[a]]] :
        p \in {q \in Perms(n) :
                 \A a \in 1..(n - 1) : key[base[q[a]]] >= key[base[q[a + 1]]]}}

Prefix(q, n) == SubSeq(q, 1, Min(n, Len(q)))

\* story_clusters rows with no llm_analyzed_news row, ORDER BY first_time
\* DESC LIMIT limit: the possible results.
get_unprocessed_clusters(limit) ==
  LET todo == {c \in DOMAIN db.clusters : ~HasRow(analyzed, c)}
      key == [c \in todo |-> db.clusters[c].first_time]
  IN {Prefix(q, limit) : q \in Descending(todo, key)}

\* The earliest member of the cluster, joined with its normalized article:
\* the possible results (NoArticle when the cluster has no member).
get_cluster_representative_article(cluster_id) ==
  LET rows == {m \in db.members : m.cid = cluster_id /\ m.nid \in DOMAIN norm}
      first == {m \in rows : \A x \in rows : m.time_utc <= x.time_utc}
  IN IF rows = {} THEN {NoArticle} ELSE {m.nid : m \in first}

IdleEnricher ==
  [pc |-> "idle", limit |-> 0, clusters |-> <<>>, k |-> 0,
   article |-> NoArticle, analysis |-> NoAnalysis,
   outcome |-> "", processed |-> 0, skipped |-> 0, errors |-> 0,
   conn |-> "ok"]

Cluster(w) == en[w].clusters[en[w].k]

\* Mutant of Counted: a conflicting insert is counted as an error.
conflict_counted_as_error(e, outcome) ==
  LET inserted == outcome = "inserted"
      p == IF inserted THEN e.processed + 1 ELSE e.processed
      sk == IF inserted \/ outcome = "conflict" THEN e.skipped ELSE e.skipped + 1
      er == IF outcome = "conflict" THEN e.errors + 1 ELSE e.errors
  IN [e EXCEPT !.processed = p, !.skipped = sk, !.errors = er,
               !.outcome = outcome,
               !.article = NoArticle, !.analysis = NoAnalysis,
               !.pc = IF p >= e.limit \/ e.k >= Len(e.clusters)
                      THEN "loop" ELSE "check",
               !.k = IF p >= e.limit \/ e.k >= Len(e.clusters)
                     THEN 0 ELSE e.k + 1]

\* process_batch 139-151 after process_cluster returned: count the result,
\* then the next cluster of the batch, or back to the while condition.
\* outcome is what process_cluster logged: "exists", "no_article",
\* "inserted" or "conflict".
Counted(e, outcome) ==
  LET inserted == outcome = "inserted"
      p == IF inserted THEN e.processed + 1 ELSE e.processed
      sk == IF inserted THEN e.skipped ELSE e.skipped + 1
  IN [e EXCEPT !.processed = p, !.skipped = sk, !.outcome = outcome,
               !.article = NoArticle, !.analysis = NoAnalysis,
               !.pc = IF p >= e.limit \/ e.k >= Len(e.clusters)
                      THEN "loop" ELSE "check",
               !.k = IF p >= e.limit \/ e.k >= Len(e.clusters)
                     THEN 0 ELSE e.k + 1]

\* process_batch 102-114.
EnStart(w, limit) ==
  /\ en[w].pc = "idle"
  /\ en' = [en EXCEPT ![w] = [IdleEnricher EXCEPT !.pc = "loop", !.limit = limit]]
  /\ UNCHANGED analyzed

\* process_batch 116-128: the while condition and the fresh fetch.
EnLoop(w) ==
  /\ en[w].pc = "loop"
  /\ en[w].skipped <= MaxSkipped
  /\ IF en[w].processed >= en[w].limit
     THEN en' = [en EXCEPT ![w].pc = "ret"]
     ELSE \E clusters \in get_unprocessed_clusters(
                 Min(en[w].limit - en[w].processed, FETCH_BATCH)) :
            en' = [en EXCEPT ![w].clusters = clusters,
                             ![w].k = IF clusters = <<>> THEN 0 ELSE 1,
                             ![w].pc = IF clusters = <<>> THEN "ret" ELSE "check"]
  /\ UNCHANGED analyzed

\* process_cluster 31-36: the pre-check.
EnPreCheck(w) ==
  /\ en[w].pc = "check"
  /\ en' = [en EXCEPT ![w] = IF HasRow(analyzed, Cluster(w))
                             THEN Counted(en[w], "exists")
                             ELSE [en[w] EXCEPT !.pc = "rep"]]
  /\ UNCHANGED analyzed

\* process_cluster 38-43: the representative article.
EnRepresentative(w) ==
  /\ en[w].pc = "rep"
  /\ \E a \in get_cluster_representative_article(Cluster(w)) :
       en' = [en EXCEPT ![w] = IF a = NoArticle
                               THEN Counted(en[w], "no_article")
                               ELSE [en[w] EXCEPT !.pc = "llm", !.article = a]]
  /\ UNCHANGED analyzed

\* process_cluster 47-51: the LLM call.
EnAnalyze(w) ==
  /\ en[w].pc = "llm"
  /\ \E response \in Responses :
       en' = [en EXCEPT ![w].analysis = analyze_news(response),
                        ![w].pc = "insert"]
  /\ UNCHANGED analyzed

\* process_cluster 66-91: build the row and insert it.
EnInsert(w) ==
  /\ en[w].pc = "insert"
  /\ LET data == [id_cluster |-> Cluster(w), id_old |-> en[w].article,
                  ai_hotness |-> en[w].analysis.hotness,
                  reasoning |-> en[w].analysis.reasoning]
         r == insert_llm_analyzed_news(analyzed, data)
     IN /\ analyzed' = r.rows
        /\ en' = [en EXCEPT ![w] =
                    Counted(en[w], IF r.new_id # NoId THEN "inserted"
                                                          ELSE "conflict")]

EnStep(w) ==
  \/ EnLoop(w)
  \/ EnPreCheck(w)
  \/ EnRepresentative(w)
  \/ EnAnalyze(w)
  \/ EnInsert(w)

(* ------------------------------ Normalizer ---------------------------- *)
IdleNormalizer == [pc |-> "idle", articles |-> <<>>, j |-> 0, processed_articles |-> 0,
                   filtered_articles |-> 0, error_count |-> 0, conn |-> "ok"]

get_processed_articles == {norm[n].original_id : n \in DOMAIN norm}

get_max_processed_id ==
  IF norm = <<>> THEN 0
  ELSE CHOOSE m \in get_processed_articles :
         \A x \in get_processed_articles : x <= m

\* Mutant of get_unprocessed_articles: ORDER BY id DESC.
get_unprocessed_newest_first(limit) ==
  Prefix(ReverseSeq(SortedSeq({a \in DOMAIN raw : a > get_max_processed_id})),
         limit)

\* articles rows with id > MAX(original_id), ORDER BY id ASC LIMIT limit.
get_unprocessed_articles(limit) ==
  Prefix(SortedSeq({a \in DOMAIN raw : a > get_max_processed_id}), limit)

\* get_processing_status()['is_up_to_date'].
is_up_to_date == get_max_processed_id >= Len(raw)

\* What normalize_article makes of a raw article that passes the filters.
normalize_article(id) ==
  [original_id |-> id, emb |-> raw[id].emb, lang |-> "en", t |-> 100,
   host |-> <<"blog", "io">>]

\* run_normalization 56-68: the status, the batch of unprocessed articles.
NormStart(limit) ==
  /\ nz.pc = "idle"
  /\ LET articles == get_unprocessed_articles(limit) IN
       nz' = IF is_up_to_date \/ articles = <<>>
             THEN [IdleNormalizer EXCEPT !.pc = "ret"]
             ELSE [IdleNormalizer EXCEPT !.pc = "batch", !.articles = articles,
                                         !.j = 1]
  /\ UNCHANGED <<norm, raw>>

\* Mutant of NormArticle: a dropped article is counted as processed.
NormArticleDropCountsProcessed ==
  /\ nz.pc = "batch"
  /\ LET id == nz.articles[nz.j]
         last == nz.j >= Len(nz.articles)
         next == [nz EXCEPT !.j = IF last THEN 0 ELSE @ + 1,
                            !.pc = IF last THEN "ret" ELSE "batch"]
     IN IF id \in get_processed_articles
        THEN /\ nz' = next
             /\ UNCHANGED norm
        ELSE IF raw[id].verdict = "ok"
        THEN /\ norm' = Append(norm, normalize_article(id))
             /\ nz' = [next EXCEPT !.processed_articles = @ + 1]
        ELSE /\ nz' = [next EXCEPT !.processed_articles = @ + 1]
             /\ UNCHANGED norm
  /\ UNCHANGED raw

\* process_articles_batch 115-136: one article of the batch.  An article
\* whose id is an original_id of normalized_articles is passed over (the ids
\* of a batch are distinct, so reading the set now or when the batch began
\* gives the same answer).
NormArticle ==
  /\ nz.pc = "batch"
  /\ LET id == nz.articles[nz.j]
         last == nz.j >= Len(nz.articles)
         next == [nz EXCEPT !.j = IF last THEN 0 ELSE @ + 1,
                            !.pc = IF last THEN "ret" ELSE "batch"]
     IN IF id \in get_processed_articles
        THEN /\ nz' = next
             /\ UNCHANGED norm
        ELSE IF raw[id].verdict = "ok"
        THEN /\ norm' = Append(norm, normalize_article(id))
             /\ nz' = [next EXCEPT !.processed_articles = @ + 1]
        ELSE /\ nz' = [next EXCEPT !.filtered_articles = @ + 1]
             /\ UNCHANGED norm
  /\ UNCHANGED raw

(* ------------------------------ Telegram bot --------------------------- *)
Chats == {1, 2}

\* NewsBot and the tables it reads.  clock counts check intervals; active is
\* telegram_subscribers WHERE is_active; news is llm_analyzed_news as the
\* monitor's query sees it (row i has id i); sent counts, per row id and
\* chat id, the send_message calls that returned.  returned and unpolled are
\* history: the row ids get_hot_news_for_monitor has returned so far, and
\* the number of iterations in a row that ran no query (2: two or more in a
\* row have occurred at some time).
IdleBot ==
  [pc |-> "sleep", clock |-> 0, active |-> {}, news |-> <<>>,
   notified_news |-> {}, subscribers |-> <<>>, hot_news |-> <<>>,
   n |-> 0, s |-> 0, paused |-> FALSE, sent |-> <<>>, returned |-> {},
   unpolled |-> 0]

\* SELECT chat_id ... WHERE is_active = TRUE (chat_id is the primary key).
get_active_subscribers == SortedSeq(bot.active)

\* Rows at or above the threshold created within the last two check
\* intervals, ORDER BY created_at DESC LIMIT 20: the possible results.
get_hot_news_for_monitor(clock) ==
  LET hot == {i \in DOMAIN bot.news :
                /\ bot.news[i].ai_hotness >= hotness_threshold
                /\ bot.news[i].created_at >= clock - 2}
      created == [i \in hot |-> bot.news[i].created_at]
  IN {Prefix(q, HOT_NEWS_LIMIT) : q \in Descending(hot, created)}

\* Mutant of already_notified: the set is not consulted.
never_notified(id) == FALSE

already_notified(id) == id \in bot.notified_news

News == bot.hot_news[bot.n]

Sent(id, chat) ==
  IF <<id, chat>> \in DOMAIN bot.sent THEN bot.sent[<<id, chat>>] ELSE 0

\* The monitor is a task of the bot's event loop: a command handler runs
\* only while the monitor awaits, which it does in the sleep between two
\* iterations (1100), in send_message and the pause after it (1072, 1085),
\* and in the pause after the sends of a row (1095).
AtAwait ==
  \/ bot.pc = "sleep"
  \/ bot.pc = "send" /\ bot.s > 1
  \/ bot.paused

\* /subscribe and /unsubscribe.
Subscribe ==
  /\ AtAwait
  /\ \E chat \in Chats : bot' = [bot EXCEPT !.active = @ \cup {chat}]
  /\ UNCHANGED <<norm, db, tx, dd, fails, now, raw, nz, wk, analyzed, en>>

Unsubscribe ==
  /\ AtAwait
  /\ \E chat \in bot.active : bot' = [bot EXCEPT !.active = @ \ {chat}]
  /\ UNCHANGED <<norm, db, tx, dd, fails, now, raw, nz, wk, analyzed, en>>

\* The enricher inserts a row of llm_analyzed_news.
NewsAnalyzed ==
  /\ Len(bot.news) < MaxNews
  /\ \E h \in {50, 80} :
       bot' = [bot EXCEPT !.news =
                 Append(@, [created_at |-> bot.clock, ai_hotness |-> h])]
  /\ UNCHANGED <<norm, db, tx, dd, fails, now, raw, nz, wk, analyzed, en>>

\* monitor_hot_news 1027-1043: after a check interval the loop reads the
\* subscribers and, when there are any, the hot news.
MonitorWake ==
  /\ bot.pc = "sleep"
  /\ bot.clock < MaxMonitorTicks
  /\ LET clock == bot.clock + 1
         subscribers == get_active_subscribers
     IN IF subscribers = <<>>
        THEN bot' = [bot EXCEPT !.clock = clock,
                                !.unpolled = Min(@ + 1, 2)]
        ELSE \E hot_news \in get_hot_news_for_monitor(clock) :
               bot' = [bot EXCEPT !.clock = clock, !.pc = "news",
                                  !.subscribers = subscribers,
                                  !.hot_news = hot_news, !.n = 1,
                                  !.returned = @ \cup Range(hot_news),
                                  !.unpolled = IF @ = 2 THEN 2 ELSE 0]
  /\ UNCHANGED <<norm, db, tx, dd, fails, now, raw, nz, wk, analyzed, en>>

\* monitor_hot_news 1052-1095: the analysis (a call of the LLM), the sends
\* and the pauses between them take time; a check interval passes while
\* the monitor is at work on a row that was not notified before.
MonitorBusy ==
  /\ \/ bot.pc = "send"
     \/ /\ bot.pc = "news"
        /\ bot.n <= Len(bot.hot_news)
        /\ ~already_notified(News)
  /\ bot.clock < MaxMonitorTicks
  /\ bot' = [bot EXCEPT !.clock = @ + 1]
  /\ UNCHANGED <<norm, db, tx, dd, fails, now, raw, nz, wk, analyzed, en>>

\* monitor_hot_news 1045-1064 and 1097-1098: the next row of hot_news is
\* passed over when it was notified; otherwise its analysis and message are
\* made, which may raise.
MonitorNews ==
  /\ bot.pc = "news"
  /\ IF bot.n > Len(bot.hot_news)
     THEN bot' = [bot EXCEPT !.pc = "sleep", !.subscribers = <<>>,
                             !.hot_news = <<>>, !.n = 0, !.paused = FALSE]
     ELSE IF already_notified(News)
     THEN bot' = [bot EXCEPT !.n = @ + 1, !.paused = FALSE]
     ELSE \E outcome \in {"ok", "raise"} :
            bot' = IF outcome = "ok"
                   THEN [bot EXCEPT !.pc = "send", !.s = 1, !.paused = FALSE]
                   ELSE [bot EXCEPT !.n = @ + 1, !.paused = FALSE]
  /\ UNCHANGED <<norm, db, tx, dd, fails, now, raw, nz, wk, analyzed, en>>

\* monitor_hot_news 1070-1095: one subscriber of the loop (send_message may
\* raise, and so may update_last_notification after the message went out);
\* after the last subscriber the row is added to notified_news.
MonitorSend ==
  /\ bot.pc = "send"
  /\ IF bot.s > Len(bot.subscribers)
     THEN bot' = [bot EXCEPT !.notified_news = @ \cup {News},
                             !.pc = "news", !.s = 0, !.n = @ + 1,
                             !.paused = TRUE]
     ELSE \E outcome \in {"sent", "send_error", "update_error"} :
            LET key == <<News, bot.subscribers[bot.s]>>
                count == Sent(key[1], key[2]) + 1
            IN bot' = IF outcome = "send_error"
                      THEN [bot EXCEPT !.s = @ + 1]
                      ELSE [bot EXCEPT !.s = @ + 1,
                              !.sent = [k \in DOMAIN @ \cup {key} |->
                                          IF k = key THEN count ELSE @[k]]]
  /\ UNCHANGED <<norm, db, tx, dd, fails, now, raw, nz, wk, analyzed, en>>

(* ----------------------- Markdown cards and alerts --------------------- *)
\* A text is a sequence of characters; "a" stands for every character that
\* is no Markdown marker.
Chars == {"a", "*", "_"}
Texts == UNION {[1..n -> Chars] : n \in 0..MaxText}

RECURSIVE Count(_, _)
Count(text, ch) ==
  IF text = <<>> THEN 0
  ELSE (IF Head(text) = ch THEN 1 ELSE 0) + Count(Tail(text), ch)

\* text.count of the code-block marker (three backticks, "BT" here): the
\* occurrences that do not overlap, from the left.
RECURSIVE CountCodeBlocks(_)
CountCodeBlocks(text) ==
  IF Len(text) < 3 THEN 0
  ELSE IF text[1] = "BT" /\ text[2] = "BT" /\ text[3] = "BT"
  THEN 1 + CountCodeBlocks(SubSeq(text, 4, Len(text)))
  ELSE CountCodeBlocks(Tail(text))

\* The findall of the inline-code pattern: the backticks with no backtick
\* next to them.
CountInlineCode(text) ==
  Cardinality({i \in DOMAIN text :
                 /\ text[i] = "BT"
                 /\ i = 1 \/ text[i - 1] # "BT"
                 /\ i = Len(text) \/ text[i + 1] # "BT"})

\* text.replace('\x00', '') and text.replace('\ufeff', '').
Scrub(text) == SelectSeq(text, LAMBDA c : c \notin {"NUL", "BOM"})

\* _sanitize_markdown 85-143.  A closing marker is appended for an odd
\* number of asterisks and one for an odd number of underscores (both
\* counted in the text as it came in); then for an odd number of code-block
\* markers, for an odd number of inline backticks, for more opening than
\* closing brackets and parentheses, each counted in the text as it is by
\* then; null bytes and byte-order marks are removed last.
_sanitize_markdown(text) ==
  LET asterisk_count == Count(text, "*")
      underscore_count == Count(text, "_")
      t1 == IF asterisk_count % 2 # 0 THEN Append(text, "*") ELSE text
      t2 == IF underscore_count % 2 # 0 THEN Append(t1, "_") ELSE t1
      t3 == IF CountCodeBlocks(t2) % 2 # 0
            THEN t2 \o <<"NL", "BT", "BT", "BT">> ELSE t2
      t4 == IF CountInlineCode(t3) % 2 # 0 THEN Append(t3, "BT") ELSE t3
      t5 == IF Count(t4, "[") > Count(t4, "]") THEN Append(t4, "]") ELSE t4
      t6 == IF Count(t5, "(") > Count(t5, ")") THEN Append(t5, ")") ELSE t5
  IN IF text = <<>> THEN text ELSE Scrub(t6)

\* _escape_markdown_special_chars: a backslash before every special one.
RECURSIVE _escape_markdown_special_chars(_)
_escape_markdown_special_chars(text) ==
  IF text = <<>> THEN <<>>
  ELSE (IF Head(text) \in {"*", "_"} THEN <<"\\", Head(text)>>
        ELSE <<Head(text)>>) \o _escape_markdown_special_chars(Tail(text))

\* format_hot_news_alert: a header whose markers are balanced, then the card.
format_hot_news_alert(card) == <<"*", "a", "*">> \o card

\* The backend's parser of Markdown mode: a marker opens an entity, the
\* same marker closes it, entities do not nest (another marker inside an
\* entity is text), and an entity left open is a parse error.
RECURSIVE MarkdownParses(_, _)
MarkdownParses(text, open) ==
  IF text = <<>> THEN open = ""
  ELSE IF open = ""
  THEN MarkdownParses(Tail(text),
                      IF Head(text) \in {"*", "_"} THEN Head(text) ELSE "")
  ELSE MarkdownParses(Tail(text), IF Head(text) = open THEN "" ELSE open)

\* What the messaging backend may answer to a send: a parse error in
\* Markdown mode when the text does not parse; any send may fail otherwise.
Backend(text, parse_mode) ==
  IF parse_mode = "Markdown" /\ ~MarkdownParses(text, "")
  THEN {"parse_error", "error"}
  ELSE {"ok", "error"}

\* The bot while it sends one card: the card text, the path that sends it,
\* and wire, the sends made for it so far.
IdleCard == [pc |-> "idle", path |-> "", text |-> <<>>, wire |-> <<>>]

Wire(text, parse_mode, result) ==
  Append(bot.wire, [text |-> text, parse_mode |-> parse_mode,
                    result |-> result])

\* The analyzer has produced a card: a detailed-analysis reply (629-651) or
\* a hot-news alert of monitor_hot_news (1052-1064).
CardReady ==
  /\ bot.pc = "idle"
  /\ \E path \in {"reply", "alert"}, text \in Texts :
       bot' = [IdleCard EXCEPT !.pc = "send", !.path = path, !.text = text]
  /\ UNCHANGED <<norm, db, tx, dd, fails, now, raw, nz, wk, analyzed, en>>

\* _safe_send_markdown 161-174 and 202-206: the sanitized text in Markdown
\* mode.
SafeSendMarkdown ==
  /\ bot.pc = "send" /\ bot.path = "reply"
  /\ LET sanitized_text == _sanitize_markdown(bot.text) IN
       \E result \in Backend(sanitized_text, "Markdown") :
         bot' = [bot EXCEPT
                   !.wire = Wire(sanitized_text, "Markdown", result),
                   !.pc = IF result = "ok" THEN "done"
                          ELSE IF result = "parse_error" THEN "fallback"
                          ELSE "last_resort"]
  /\ UNCHANGED <<norm, db, tx, dd, fails, now, raw, nz, wk, analyzed, en>>

\* _safe_send_markdown 175-199: after a parse error, the escaped text as
\* plain text.
SafeSendFallback ==
  /\ bot.pc = "fallback"
  /\ LET escaped_text == _escape_markdown_special_chars(bot.text) IN
       \E result \in Backend(escaped_text, "None") :
         bot' = [bot EXCEPT
                   !.wire = Wire(escaped_text, "None", result),
                   !.pc = IF result = "ok" THEN "done" ELSE "last_resort"]
  /\ UNCHANGED <<norm, db, tx, dd, fails, now, raw, nz, wk, analyzed, en>>

\* _safe_send_markdown 204-219: the last resort, a fixed plain message.
SafeSendLastResort ==
  /\ bot.pc = "last_resort"
  /\ \E result \in Backend(<<"a">>, "None") :
       bot' = [bot EXCEPT !.wire = Wire(<<"a">>, "None", result),
                          !.pc = "done"]
  /\ UNCHANGED <<norm, db, tx, dd, fails, now, raw, nz, wk, analyzed, en>>

\* monitor_hot_news 1063-1089: the alert is sent as format_hot_news_alert
\* made it, in Markdown mode; an exception is counted and the loop goes on.
AlertSend ==
  /\ bot.pc = "send" /\ bot.path = "alert"
  /\ LET message == format_hot_news_alert(bot.text) IN
       \E result \in Backend(message, "Markdown") :
         bot' = [bot EXCEPT !.wire = Wire(message, "Markdown", result),
                            !.pc = "done"]
  /\ UNCHANGED <<norm, db, tx, dd, fails, now, raw, nz, wk, analyzed, en>>

\* The handler or the loop goes on to other work.
CardDone ==
  /\ bot.pc = "done"
  /\ bot' = IdleCard
  /\ UNCHANGED <<norm, db, tx, dd, fails, now, raw, nz, wk, analyzed, en>>

(* ---------------------------- Pipeline Worker ------------------------- *)
RawArticle == [verdict : {"ok", "drop"}, emb : {1, 4}]

\* The worker between two cycles.  ranDedup, ranLLM, dedupFailed and owed
\* record what run_cycle printed: which stages ran, whether
\* run_deduplication caught an exception, and whether the cycle began with
\* articles left behind by a failed Deduplicator run of the cycle before.
\* again, pending, seen and before describe the start of the cycle: whether
\* a cycle ran before and no raw article arrived since it began, whether a
\* raw article that passes the filters waits above the Normalizer's
\* high-water mark, the number of raw articles, and the tables.
Sleeping ==
  [pc |-> "sleep", normalized_count |-> 0, dedup_count |-> 0, llm_count |-> 0,
   ranDedup |-> FALSE, ranLLM |-> FALSE, dedupFailed |-> FALSE, owed |-> FALSE,
   cycled |-> FALSE, again |-> FALSE, pending |-> FALSE, seen |-> 0,
   before |-> <<>>]

Tables == <<norm, db, analyzed>>

PendingArticles ==
  {id \in DOMAIN raw : id > get_max_processed_id /\ raw[id].verdict = "ok"}

Backlog == {n \in DOMAIN norm : n > db.lastVec}

\* A parser stores a new article in the articles table.  A cycle reads the
\* table once, when it begins, so an article that arrives during a cycle is
\* taken as arriving after it.
Ingest ==
  /\ Len(raw) < MaxRaw
  /\ wk.pc = "sleep"
  /\ \E a \in RawArticle : raw' = Append(raw, a)
  /\ UNCHANGED <<norm, db, tx, dd, fails, now, bot, nz, wk, analyzed, en>>

\* run 170-177 and run_cycle 136: a cycle begins with run_normalization.
CycleStart ==
  /\ wk.pc = "sleep"
  /\ wk' = [Sleeping EXCEPT !.pc = "norm",
                            !.owed = wk.dedupFailed /\ Backlog # {},
                            !.cycled = TRUE,
                            !.again = wk.cycled /\ Len(raw) = wk.seen,
                            !.pending = PendingArticles # {},
                            !.seen = Len(raw),
                            !.before = Tables]
  /\ NormStart(BatchSize)
  /\ UNCHANGED <<db, tx, dd, fails, now, bot, analyzed, en>>

CycleNormArticle ==
  /\ wk.pc = "norm"
  /\ NormArticle
  /\ UNCHANGED <<db, tx, dd, fails, now, bot, wk, analyzed, en>>

\* Mutant of CycleDedup: the Deduplicator runs in every cycle.
CycleDedupUngated ==
  /\ wk.pc = "norm"
  /\ nz.pc = "ret"
  /\ nz' = IdleNormalizer
  /\ wk' = [wk EXCEPT !.pc = "dedup", !.ranDedup = TRUE,
                      !.normalized_count = nz.processed_articles]
  /\ DedupStart
  /\ UNCHANGED <<now, bot, raw, analyzed, en>>

\* run_cycle 139-143: the Deduplicator runs if articles were normalized.
CycleDedup ==
  /\ wk.pc = "norm"
  /\ nz.pc = "ret"
  /\ nz' = IdleNormalizer
  /\ IF nz.processed_articles > 0
     THEN /\ wk' = [wk EXCEPT !.pc = "dedup", !.ranDedup = TRUE,
                              !.normalized_count = nz.processed_articles]
          /\ DedupStart
     ELSE /\ wk' = [wk EXCEPT !.pc = "gate",
                              !.normalized_count = nz.processed_articles]
          /\ UNCHANGED <<norm, db, tx, dd, fails>>
  /\ UNCHANGED <<now, bot, raw, analyzed, en>>

CycleDedupStep ==
  /\ wk.pc = "dedup"
  /\ DedupStep
  /\ UNCHANGED dedupOnly

CycleDedupFail ==
  /\ wk.pc = "dedup"
  /\ DedupFail
  /\ UNCHANGED dedupOnly

\* run_deduplication 89-98: the count returned, 0 after an exception.
CycleDedupReturn ==
  /\ wk.pc = "dedup"
  /\ dd.pc = "ret"
  /\ wk' = [wk EXCEPT !.pc = "gate", !.dedup_count = dd.processed,
                      !.dedupFailed = dd.failedAt # ""]
  /\ dd' = IdleDedup
  /\ tx' = db
  /\ UNCHANGED <<norm, db, fails, now, bot, raw, nz, analyzed, en>>

\* run_cycle 146-150: the LLM analysis runs, or is skipped and the cycle ends.
CycleLLM ==
  /\ wk.pc = "gate"
  /\ IF wk.dedup_count > 0 \/ wk.normalized_count > 0
     THEN /\ wk' = [wk EXCEPT !.pc = "llm", !.ranLLM = TRUE]
          /\ EnStart(1, LlmLimit)
     ELSE /\ wk' = [wk EXCEPT !.pc = "sleep"]
          /\ UNCHANGED <<analyzed, en>>
  /\ UNCHANGED <<norm, db, tx, dd, fails, now, bot, raw, nz>>

CycleLLMStep ==
  /\ wk.pc = "llm"
  /\ EnStep(1)
  /\ UNCHANGED <<norm, db, tx, dd, fails, now, bot, raw, nz, wk>>

\* run_llm_analysis 117-125 and run_cycle 152-161: the cycle ends.
CycleEnd ==
  /\ wk.pc = "llm"
  /\ en[1].pc = "ret"
  /\ wk' = [wk EXCEPT !.pc = "sleep", !.llm_count = en[1].processed]
  /\ en' = [en EXCEPT ![1] = IdleEnricher]
  /\ UNCHANGED <<norm, db, tx, dd, fails, now, bot, raw, nz, analyzed>>

\* run 182-184: Ctrl-C raises KeyboardInterrupt at the statement the worker
\* is executing.  No stage catches it (they catch Exception); the finally
\* clauses close the connection, which rolls the open transaction back, and
\* run leaves its loop.  The locals stay as they were, to show where the
\* stage was cut.
Shutdown ==
  /\ wk.pc # "stopped"
  /\ wk' = [wk EXCEPT !.pc = "stopped"]
  /\ tx' = db
  /\ UNCHANGED <<norm, db, dd, fails, now, bot, raw, nz, analyzed, en>>

Init ==
  /\ raw = <<>>
  /\ norm = <<>>
  /\ db = EmptyTables
  /\ tx = EmptyTables
  /\ dd = IdleDedup
  /\ fails = 0
  /\ now = 100
  /\ nz = IdleNormalizer
  /\ wk = Sleeping
  /\ analyzed = <<>>
  /\ en = <<IdleEnricher>>
  /\ bot = IdleBot

Next ==
  \/ Ingest
  \/ CycleStart
  \/ CycleNormArticle
  \/ CycleDedup
  \/ CycleDedupStep
  \/ CycleDedupFail
  \/ CycleDedupReturn
  \/ CycleLLM
  \/ CycleLLMStep
  \/ CycleEnd
  \/ Shutdown

Spec == Init /\ [][Next]_vars

(* ------------------------- two enricher workers ----------------------- *)
Enrichers == {1, 2}

\* The tables after the Deduplicator put n articles into n clusters.
RECURSIVE Clustered(_, _)
Clustered(n, times) ==
  IF n = 0 THEN EmptyTables
  ELSE LET site == <<"blog", "io">>
           t0 == Clustered(n - 1, times)
           t1 == ensure_cluster([t0 EXCEPT !.vectors = @ \cup {n}],
                                "en", n, site, times[n])
           t2 == add_member(t1, n, n, n, site, times[n])
           t3 == CHOOSE t \in select_links_and_update(t2, n) : TRUE
       IN [recompute_scores(t3, n, 101) EXCEPT !.lastVec = n]

InitEnrich ==
  /\ \E times \in [1..MaxClusters -> {100, 101}] :
       /\ norm = [n \in 1..MaxClusters |->
                    [original_id |-> n, emb |-> 4, lang |-> "en",
                     t |-> times[n], host |-> <<"blog", "io">>]]
       /\ db = Clustered(MaxClusters, times)
  /\ tx = db
  /\ dd = IdleDedup
  /\ fails = 0
  /\ now = 101
  /\ raw = <<>>
  /\ nz = IdleNormalizer
  /\ wk = Sleeping
  /\ analyzed = <<>>
  /\ en = [w \in Enrichers |-> IdleEnricher]
  /\ bot = IdleBot

enrichOnly == <<norm, db, tx, dd, fails, now, bot, raw, nz, wk>>

\* A runner starts process_batch.
EnricherStart == \E w \in Enrichers : EnStart(w, LlmLimit) /\ UNCHANGED enrichOnly

EnricherStep == \E w \in Enrichers : EnStep(w) /\ UNCHANGED enrichOnly

\* process_batch 153-168: the statistics are returned.
EnricherReturn ==
  \E w \in Enrichers :
    /\ en[w].pc = "ret"
    /\ en' = [en EXCEPT ![w] = IdleEnricher]
    /\ UNCHANGED analyzed
    /\ UNCHANGED enrichOnly

NextEnrich == EnricherStart \/ EnricherStep \/ EnricherReturn

SpecEnrich == InitEnrich /\ [][NextEnrich]_vars

(* ----------------- the enricher with failing statements --------------- *)
\* A statement that PostgreSQL rejects leaves the transaction of the
\* connection aborted: every later statement on it fails until a rollback.
\* Mutant of rollback: the handler does not roll back.
rollback_missing(conn) == conn

\* conn.rollback() in the handlers of psycopg2.Error.
rollback(conn) == "ok"

\* process_batch is called again on the connection the processor holds.
FaultyStart ==
  /\ en[1].pc = "idle"
  /\ en' = [en EXCEPT ![1].pc = "loop", ![1].limit = LlmLimit,
                      ![1].processed = 0, ![1].skipped = 0, ![1].outcome = ""]
  /\ UNCHANGED analyzed
  /\ UNCHANGED enrichOnly

\* The statements of a step execute: the connection is not aborted.
FaultyStep ==
  /\ en[1].conn = "ok"
  /\ EnStep(1)
  /\ UNCHANGED enrichOnly

\* The pre-check SELECT (processor.py 32-33) or the INSERT (schema.py
\* 211-228) raises psycopg2.Error, or the SELECT of the representative
\* article does (schema.py 175-189): the handler rolls back,
\* process_cluster returns None and process_batch counts a skipped cluster.
\* A statement on an aborted connection raises as well.
FaultyStatement ==
  /\ en[1].pc \in {"check", "rep", "insert"}
  /\ en' = [en EXCEPT ![1] = [Counted(en[1], "db_error") EXCEPT
                                !.conn = rollback("aborted")]]
  /\ UNCHANGED analyzed
  /\ UNCHANGED enrichOnly

FaultyReturn ==
  /\ en[1].pc = "ret"
  /\ en' = [en EXCEPT ![1].pc = "idle", ![1].clusters = <<>>, ![1].k = 0]
  /\ UNCHANGED analyzed
  /\ UNCHANGED enrichOnly

\* The tables hold MaxClusters clusters; one of them may have lost its
\* member row (ensure_cluster committed and add_member did not).
InitFaulty ==
  /\ \E times \in [1..MaxClusters -> {100, 101}], orphan \in 0..MaxClusters :
       /\ norm = [n \in 1..MaxClusters |->
                    [original_id |-> n, emb |-> 4, lang |-> "en",
                     t |-> times[n], host |-> <<"blog", "io">>]]
       /\ db = [Clustered(MaxClusters, times) EXCEPT
                  !.members = {m \in @ : m.cid # orphan}]
  /\ tx = db
  /\ dd = IdleDedup
  /\ fails = 0
  /\ now = 101
  /\ raw = <<>>
  /\ nz = IdleNormalizer
  /\ wk = Sleeping
  /\ analyzed = <<>>
  /\ en = <<IdleEnricher>>
  /\ bot = IdleBot

NextFaulty == FaultyStart \/ FaultyStep \/ FaultyStatement \/ FaultyReturn

SpecFaulty == InitFaulty /\ [][NextFaulty]_vars

(* --------------- the Deduplicator run again and again ----------------- *)
\* run_deduplication as a caller of process_new_batch: connect, run, close.
\* The articles of this specification differ in embedding and host.
DedupArticle == [emb : {1, 2, 4}, lang : {"en"}, t : {100}, host : Hosts]

RestIdle ==
  /\ raw = <<>>
  /\ bot = IdleBot
  /\ nz = IdleNormalizer
  /\ wk = Sleeping
  /\ analyzed = <<>>
  /\ en = <<>>

\* The Normalizer commits a new normalized_articles row.  A row that arrives
\* while process_new_batch runs is not in the batch it fetched, so arrivals
\* are taken between two runs.
ArticleArrives(kinds) ==
  /\ dd.pc = "idle"
  /\ \E a \in kinds : norm' = Append(norm, a)
  /\ UNCHANGED <<db, tx, dd, fails>>
  /\ UNCHANGED dedupOnly

InitDedup ==
  /\ norm = <<>>
  /\ db = EmptyTables
  /\ tx = EmptyTables
  /\ dd = IdleDedup
  /\ fails = 0
  /\ now = 100
  /\ RestIdle

DocArrives == Len(norm) < MaxDocs /\ ArticleArrives(DedupArticle)

RunDedup == DedupStart /\ UNCHANGED dedupOnly

RunDedupStep == DedupStep /\ UNCHANGED dedupOnly

RunDedupFail == DedupFail /\ UNCHANGED dedupOnly

RunDedupReturn ==
  /\ dd.pc = "ret"
  /\ dd' = IdleDedup
  /\ tx' = db
  /\ UNCHANGED <<norm, db, fails>>
  /\ UNCHANGED dedupOnly

NextDedup ==
  DocArrives \/ RunDedup \/ RunDedupStep \/ RunDedupFail \/ RunDedupReturn

SpecDedup == InitDedup /\ [][NextDedup]_vars

(* ------------- the Deduplicator on a stream, without failures --------- *)
\* The articles of this specification differ in embedding, language and
\* publication time: 52 and 100 are 48 h apart, 52 and 101 are 49 h apart.
\* English articles on three related embeddings at each time, Russian
\* articles related to them, and one article related to nothing.
LangTimes == {<<"en", 52>>, <<"en", 100>>, <<"en", 101>>}

ClassifyArticle ==
  {[emb |-> e, lang |-> lt[1], t |-> lt[2], host |-> <<"blog", "io">>] :
     e \in {1, 2, 3}, lt \in LangTimes}
    \cup {[emb |-> e, lang |-> "ru", t |-> 100, host |-> <<"blog", "io">>] :
            e \in {2, 3}}
    \cup {[emb |-> 4, lang |-> "en", t |-> 100, host |-> <<"blog", "io">>]}

InitClassify ==
  /\ norm = <<>>
  /\ db = EmptyTables
  /\ tx = EmptyTables
  /\ dd = IdleDedup
  /\ fails = 0
  /\ now = 100
  /\ RestIdle

\* The next article of the stream arrives when the one before it is done.
StreamArrives ==
  /\ Len(norm) < MaxStream
  /\ Len(norm) = db.lastVec
  /\ ArticleArrives(ClassifyArticle)

NextClassify == StreamArrives \/ RunDedup \/ RunDedupStep \/ RunDedupReturn

SpecClassify == InitClassify /\ [][NextClassify]_vars

(* ------------- the Deduplicator while the clock advances --------------- *)
\* The articles of this specification are related (similarity 0.94) or
\* equal; an article was published at hour 52 or at hour 94, or carries no
\* publication time.  The clock starts at hour 100.
ClockArticle ==
  [emb : {1, 3}, lang : {"en"}, t : {52, 94, NoTime}, host : {<<"blog", "io">>}]

StartHour == 100

InitClock ==
  /\ norm = <<>>
  /\ db = EmptyTables
  /\ tx = EmptyTables
  /\ dd = IdleDedup
  /\ fails = 0
  /\ now = StartHour
  /\ RestIdle

ClockArrives == Len(norm) < MaxStream /\ ArticleArrives(ClockArticle)

\* An hour passes.
Tick ==
  /\ now < StartHour + MaxTicks
  /\ now' = now + 1
  /\ UNCHANGED <<norm, db, tx, dd, fails, raw, nz, wk, analyzed, en, bot>>

NextClock ==
  \/ ClockArrives
  \/ Tick
  \/ RunDedup
  \/ RunDedupStep
  \/ RunDedupFail
  \/ RunDedupReturn

SpecClock == InitClock /\ [][NextClock]_vars

(* ---------------- recompute_scores over drawn clusters ---------------- *)
\* A story cluster as add_member leaves it: a first time, and for each site
\* the number of member rows it has counted (0: the site is no key of
\* domains_json).  At least one site is a key.
ScoreSites ==
  {<<"sec", "gov">>, <<"reuters", "com">>, <<"ft", "com">>,
   <<"cnbc", "com">>, <<"blog", "io">>}

ScoreFirstTimes == {52, 94, 95, 100}

ScoreDomains ==
  {f \in [ScoreSites -> 0..MaxCount] : \E d \in ScoreSites : f[d] > 0}

ScoreCluster(first, domains) ==
  [lang |-> "en", first_time |-> first, last_time |-> first,
   domains |-> domains, urls |-> <<>>,
   doc_count |-> SumOver(domains, ScoreSites), earliest_url |-> NoUrl,
   latest_url |-> NoUrl, strongest_domain |-> NoDomain, hotness |-> 0]

InitScore ==
  /\ norm = <<>>
  /\ \E first \in ScoreFirstTimes, domains \in ScoreDomains :
       db = [EmptyTables EXCEPT !.clusters = <<ScoreCluster(first, domains)>>]
  /\ tx = db
  /\ dd = IdleDedup
  /\ fails = 0
  /\ now = StartHour
  /\ RestIdle

\* recompute_scores(conn, 1) at the current hour.
Rescore ==
  /\ tx' = recompute_scores(tx, 1, now)
  /\ db' = tx'
  /\ UNCHANGED <<norm, dd, fails, now, bot, raw, nz, wk, analyzed, en>>

NextScore == Rescore \/ Tick

SpecScore == InitScore /\ [][NextScore]_vars

(* --------------------- the Normalizer, batch after batch --------------- *)
InitNormalize ==
  /\ norm = <<>>
  /\ db = EmptyTables
  /\ tx = EmptyTables
  /\ dd = IdleDedup
  /\ fails = 0
  /\ now = StartHour
  /\ RestIdle

\* A parser stores a new article.  run_normalization reads the articles
\* table when it begins, so an arrival is taken between two batches.
RawArrives ==
  /\ nz.pc = "idle"
  /\ Len(raw) < MaxArticles
  /\ \E a \in RawArticle : raw' = Append(raw, a)
  /\ UNCHANGED <<norm, db, tx, dd, fails, now, bot, nz, wk, analyzed, en>>

NormRun ==
  /\ NormStart(NormBatch)
  /\ UNCHANGED <<db, tx, dd, fails, now, bot, wk, analyzed, en>>

NormRunArticle ==
  /\ NormArticle
  /\ UNCHANGED <<db, tx, dd, fails, now, bot, wk, analyzed, en>>

\* run_normalization returns the count of the batch.
NormReturn ==
  /\ nz.pc = "ret"
  /\ nz' = IdleNormalizer
  /\ UNCHANGED <<norm, db, tx, dd, fails, now, bot, raw, wk, analyzed, en>>

NextNormalize == RawArrives \/ NormRun \/ NormRunArticle \/ NormReturn

SpecNormalize == InitNormalize /\ [][NextNormalize]_vars

(* ------------- the Normalizer with inserts the server rejects ---------- *)
\* A raw article of verdict "rejected" passes the filters of
\* normalize_article and makes a row that PostgreSQL refuses (a DataError or
\* an IntegrityError raised by cursor.execute in insert_normalized_article).
RejectedArticle == [verdict : {"rejected"}, emb : {1, 4}]

RawArrivesAnyKind ==
  /\ nz.pc = "idle"
  /\ Len(raw) < MaxArticles
  /\ \E a \in RawArticle \cup RejectedArticle : raw' = Append(raw, a)
  /\ UNCHANGED <<norm, db, tx, dd, fails, now, bot, nz, wk, analyzed, en>>

\* The article the loop of process_articles_batch is at goes to
\* insert_normalized_article.
InsertIsNext ==
  /\ nz.pc = "batch"
  /\ nz.articles[nz.j] \notin get_processed_articles
  /\ raw[nz.articles[nz.j]].verdict # "drop"

\* One article of the batch whose statements, if any, execute.
NormArticleExecutes ==
  /\ nz.pc = "batch"
  /\ InsertIsNext =>
       nz.conn = "ok" /\ raw[nz.articles[nz.j]].verdict = "ok"
  /\ NormArticle
  /\ UNCHANGED <<db, tx, dd, fails, now, bot, wk, analyzed, en>>

\* cursor.execute raises in insert_normalized_article: the server rejects
\* the row, or the transaction of the connection is aborted already.  The
\* except clause of process_articles_batch (133-135) prints and counts; no
\* rollback is issued, so the transaction stays aborted.
NormInsertRaises ==
  /\ InsertIsNext
  /\ raw[nz.articles[nz.j]].verdict = "rejected" \/ nz.conn = "aborted"
  /\ LET last == nz.j >= Len(nz.articles) IN
       nz' = [nz EXCEPT !.j = IF last THEN 0 ELSE @ + 1,
                        !.pc = IF last THEN "ret" ELSE "batch",
                        !.error_count = @ + 1,
                        !.conn = "aborted"]
  /\ UNCHANGED <<norm, raw, db, tx, dd, fails, now, bot, wk, analyzed, en>>

NextRejecting ==
  RawArrivesAnyKind \/ NormRun \/ NormArticleExecutes \/ NormInsertRaises
    \/ NormReturn

SpecRejecting == InitNormalize /\ [][NextRejecting]_vars

(* ----------------------- the hot news monitor -------------------------- *)
InitMonitor ==
  /\ norm = <<>>
  /\ db = EmptyTables
  /\ tx = EmptyTables
  /\ dd = IdleDedup
  /\ fails = 0
  /\ now = StartHour
  /\ RestIdle

NextMonitor ==
  \/ Subscribe
  \/ Unsubscribe
  \/ NewsAnalyzed
  \/ MonitorWake
  \/ MonitorBusy
  \/ MonitorNews
  \/ MonitorSend

SpecMonitor == InitMonitor /\ [][NextMonitor]_vars

(* -------------------- the sends of cards and alerts -------------------- *)
InitCard ==
  /\ norm = <<>>
  /\ db = EmptyTables
  /\ tx = EmptyTables
  /\ dd = IdleDedup
  /\ fails = 0
  /\ now = StartHour
  /\ raw = <<>>
  /\ nz = IdleNormalizer
  /\ wk = Sleeping
  /\ analyzed = <<>>
  /\ en = <<>>
  /\ bot = IdleCard

NextCard ==
  \/ CardReady
  \/ SafeSendMarkdown
  \/ SafeSendFallback
  \/ SafeSendLastResort
  \/ AlertSend
  \/ CardDone

SpecCard == InitCard /\ [][NextCard]_vars

(* ------------------ ingestion into the raw articles table -------------- *)
\* The raw table is written by parse_and_save_rss (the auto-parse thread and
\* the /parse endpoint, one session and one commit per run) and by
\* ParsingService._save_articles (one session and one commit per article).
\* The table has the constraint of whichever DDL created it first:
\* create_articles_table declares UNIQUE(title, link), the SQLAlchemy models
\* declare title unique, and neither alters a table that exists already.
Titles == {"t1", "t2"}
Links == {"l1", "l2"}
Entries == [title : Titles, link : Links]
Runs == 1 .. 2

IdleRun == [pc |-> "idle", pending |-> <<>>]

TitlesOf(rows) == {rows[i].title : i \in DOMAIN rows}

\* The unique constraint of the table rejects row e.
ViolatesUnique(e) ==
  \E i \in DOMAIN raw.rows :
     /\ raw.rows[i].title = e.title
     /\ raw.title_unique \/ raw.rows[i].link = e.link

\* session.query(Article).filter_by(title=...).first(): the committed rows,
\* and the session's own pending rows, which the query flushes first.
exists_by_title(r, title) ==
  title \in TitlesOf(raw.rows) \cup TitlesOf(raw.run[r].pending)

ParseStart(r) ==
  /\ raw.run[r].pc = "idle"
  /\ raw' = [raw EXCEPT !.run[r].pc = "entries"]
  /\ UNCHANGED <<norm, db, tx, dd, fails, now, bot, nz, wk, analyzed, en>>

\* One entry of a feed: skipped when its title exists, added otherwise.
ParseEntry(r) ==
  /\ raw.run[r].pc = "entries"
  /\ Len(raw.run[r].pending) < MaxEntries
  /\ \E e \in Entries :
       /\ ~exists_by_title(r, e.title)
       /\ raw' = [raw EXCEPT !.run[r].pending = Append(@, e)]
  /\ UNCHANGED <<norm, db, tx, dd, fails, now, bot, nz, wk, analyzed, en>>

\* session.commit() at the end of the run: every pending row or, when one of
\* them violates the constraint, none (rollback, the run returns 0).
ParseCommit(r) ==
  /\ raw.run[r].pc = "entries"
  /\ LET p == raw.run[r].pending
         rejected == \E i \in DOMAIN p : ViolatesUnique(p[i])
     IN raw' = [raw EXCEPT !.rows = IF rejected THEN @ ELSE @ \o p,
                           !.run[r] = IdleRun]
  /\ UNCHANGED <<norm, db, tx, dd, fails, now, bot, nz, wk, analyzed, en>>

\* _save_articles, first half: exists_by_title in a session of its own; an
\* existing title is skipped.
SaveCheck(r) ==
  /\ raw.run[r].pc = "idle"
  /\ \E e \in Entries :
       /\ e.title \notin TitlesOf(raw.rows)
       /\ raw' = [raw EXCEPT !.run[r] = [pc |-> "create", pending |-> <<e>>]]
  /\ UNCHANGED <<norm, db, tx, dd, fails, now, bot, nz, wk, analyzed, en>>

\* _save_articles, second half: create_article looks the title up again and
\* raises when it exists; repository.create adds and commits, and a
\* constraint violation is caught with the other exceptions of the article.
SaveCreate(r) ==
  /\ raw.run[r].pc = "create"
  /\ LET e == raw.run[r].pending[1]
         refused == e.title \in TitlesOf(raw.rows) \/ ViolatesUnique(e)
     IN raw' = [raw EXCEPT !.rows = IF refused THEN @ ELSE Append(@, e),
                           !.run[r] = IdleRun]
  /\ UNCHANGED <<norm, db, tx, dd, fails, now, bot, nz, wk, analyzed, en>>

InitIngest ==
  /\ norm = <<>>
  /\ db = EmptyTables
  /\ tx = EmptyTables
  /\ dd = IdleDedup
  /\ fails = 0
  /\ now = StartHour
  /\ nz = IdleNormalizer
  /\ wk = Sleeping
  /\ analyzed = <<>>
  /\ en = <<>>
  /\ bot = IdleBot
  /\ \E u \in BOOLEAN :
       raw = [title_unique |-> u, rows |-> <<>>, run |-> [r \in Runs |-> IdleRun]]

NextIngest ==
  \/ \E r \in Runs : ParseStart(r)
  \/ \E r \in Runs : ParseEntry(r)
  \/ \E r \in Runs : ParseCommit(r)
  \/ \E r \in Runs : SaveCheck(r)
  \/ \E r \in Runs : SaveCreate(r)

SpecIngest == InitIngest /\ [][NextIngest]_vars

(* ------------------------ calculate_quality_score ---------------------- *)
\* An article as calculate_quality_score reads it: the length of its content
\* and of the content stripped of surrounding whitespace, the length of its
\* stripped title, whether it has a link and a source, and what is_spam
\* says of the content.  Scores are in thousandths.
ContentLengths == {29, 30, 199, 200, 201, 499, 500, 501}
TitleLengths == {0, 10, 11}

QualityArticle ==
  {a \in [content : ContentLengths, stripped : {0, 29, 30} \cup ContentLengths,
          title : TitleLengths, link : BOOLEAN, source : BOOLEAN,
          spam : BOOLEAN] : a.stripped <= a.content}

\* Lines 175-179: the part of the score that the content length adds.
content_score(content_length) ==
  IF content_length > 500 THEN 300
  ELSE IF content_length > 200 THEN 200
  ELSE 0

calculate_quality_score(a) ==
  IF a.stripped < 30 THEN 0
  ELSE LET s1 == content_score(a.content)
           s2 == s1 + (IF a.title > 10 THEN 200 ELSE 0)
           s3 == s2 + (IF a.link THEN 100 ELSE 0)
           s4 == s3 + (IF a.source THEN 100 ELSE 0)
           s5 == IF ~a.spam THEN s4 + 300 ELSE (s4 * 3) \div 10
       IN Min(s5, 1000)

IdleQuality == [pc |-> "article", article |-> <<>>, score |-> 0]

InitQuality ==
  /\ norm = <<>>
  /\ db = EmptyTables
  /\ tx = EmptyTables
  /\ dd = IdleDedup
  /\ fails = 0
  /\ now = StartHour
  /\ raw = <<>>
  /\ bot = IdleBot
  /\ wk = Sleeping
  /\ analyzed = <<>>
  /\ en = <<>>
  /\ \E a \in QualityArticle : nz = [IdleQuality EXCEPT !.article = a]

\* quality_score = self.calculate_quality_score(article).
ScoreQuality ==
  /\ nz.pc = "article"
  /\ nz' = [nz EXCEPT !.pc = "scored",
                      !.score = calculate_quality_score(nz.article)]
  /\ UNCHANGED <<norm, db, tx, dd, fails, now, bot, raw, wk, analyzed, en>>

NextQuality == ScoreQuality

SpecQuality == InitQuality /\ [][NextQuality]_vars

(* --------------------- the sends of one monitor tick ------------------- *)
\* One iteration of monitor_hot_news with its counters: sent_count and
\* failed_count of the row at hand, the pairs <<row, chat>> whose
\* send_message returned (delivered) and those whose last_notification_at
\* update_last_notification committed (updated).
IdleAlert ==
  [pc |-> "news", subscribers |-> <<>>, rows |-> 0, n |-> 1, s |-> 0,
   sent_count |-> 0, failed_count |-> 0, delivered |-> {}, updated |-> {}]

\* Mutant of SendTo: the exception of a send leaves the loop over the
\* subscribers.
SendToOrLeave(b, outcome) ==
  LET key == <<b.n, b.subscribers[b.s]>> IN
    IF outcome = "send_error"
    THEN [b EXCEPT !.s = Len(b.subscribers) + 1, !.failed_count = @ + 1]
    ELSE IF outcome = "update_error"
    THEN [b EXCEPT !.s = @ + 1, !.sent_count = @ + 1, !.failed_count = @ + 1,
                   !.delivered = @ \cup {key}]
    ELSE [b EXCEPT !.s = @ + 1, !.sent_count = @ + 1,
                   !.delivered = @ \cup {key}, !.updated = @ \cup {key}]

\* Lines 1070-1089, one subscriber: send_message raises; or it returns,
\* sent_count is incremented and update_last_notification raises; or both
\* return.  The except clause counts a failure and the loop goes on.
SendTo(b, outcome) ==
  LET key == <<b.n, b.subscribers[b.s]>> IN
    IF outcome = "send_error"
    THEN [b EXCEPT !.s = @ + 1, !.failed_count = @ + 1]
    ELSE IF outcome = "update_error"
    THEN [b EXCEPT !.s = @ + 1, !.sent_count = @ + 1, !.failed_count = @ + 1,
                   !.delivered = @ \cup {key}]
    ELSE [b EXCEPT !.s = @ + 1, !.sent_count = @ + 1,
                   !.delivered = @ \cup {key}, !.updated = @ \cup {key}]

\* Lines 1045-1068: the next row; its analysis or its message may raise,
\* and the row is then left for the next iteration.
AlertNews ==
  /\ bot.pc = "news"
  /\ IF bot.n > bot.rows
     THEN bot' = [bot EXCEPT !.pc = "sleep"]
     ELSE \E outcome \in {"ok", "raise"} :
            bot' = IF outcome = "ok"
                   THEN [bot EXCEPT !.pc = "send", !.s = 1,
                                    !.sent_count = 0, !.failed_count = 0]
                   ELSE [bot EXCEPT !.n = @ + 1]
  /\ UNCHANGED <<norm, db, tx, dd, fails, now, raw, nz, wk, analyzed, en>>

AlertSubscriber ==
  /\ bot.pc = "send"
  /\ bot.s <= Len(bot.subscribers)
  /\ \E outcome \in {"sent", "send_error", "update_error"} :
       bot' = SendTo(bot, outcome)
  /\ UNCHANGED <<norm, db, tx, dd, fails, now, raw, nz, wk, analyzed, en>>

\* Lines 1091-1095: the row is done.
AlertRowDone ==
  /\ bot.pc = "send"
  /\ bot.s > Len(bot.subscribers)
  /\ bot' = [bot EXCEPT !.pc = "news", !.n = @ + 1, !.s = 0]
  /\ UNCHANGED <<norm, db, tx, dd, fails, now, raw, nz, wk, analyzed, en>>

InitAlert ==
  /\ norm = <<>>
  /\ db = EmptyTables
  /\ tx = EmptyTables
  /\ dd = IdleDedup
  /\ fails = 0
  /\ now = StartHour
  /\ raw = <<>>
  /\ nz = IdleNormalizer
  /\ wk = Sleeping
  /\ analyzed = <<>>
  /\ en = <<>>
  /\ \E active \in SUBSET Chats \ {{}}, rows \in 1..MaxNews :
       bot = [IdleAlert EXCEPT !.subscribers = SortedSeq(active),
                               !.rows = rows]

NextAlert == AlertNews \/ AlertSubscriber \/ AlertRowDone

SpecAlert == InitAlert /\ [][NextAlert]_vars

(* ------------------------ _sanitize_markdown alone --------------------- *)
\* Texts of asterisks, backticks, null bytes and other characters.
MarkdownTexts ==
  UNION {[1..n -> {"a", "*", "BT", "NUL"}] : n \in 0..MaxMarkdown}

InitSanitize ==
  /\ norm = <<>>
  /\ db = EmptyTables
  /\ tx = EmptyTables
  /\ dd = IdleDedup
  /\ fails = 0
  /\ now = StartHour
  /\ raw = <<>>
  /\ nz = IdleNormalizer
  /\ wk = Sleeping
  /\ analyzed = <<>>
  /\ en = <<>>
  /\ \E text \in MarkdownTexts :
       bot = [pc |-> "text", text |-> text, out |-> <<>>]

\* text = self._sanitize_markdown(text).
Sanitize ==
  /\ bot.pc = "text"
  /\ bot' = [bot EXCEPT !.pc = "sanitized", !.out = _sanitize_markdown(bot.text)]
  /\ UNCHANGED <<norm, db, tx, dd, fails, now, raw, nz, wk, analyzed, en>>

NextSanitize == Sanitize

SpecSanitize == InitSanitize /\ [][NextSanitize]_vars

(* ------------- the worker with a batch above the LLM limit ------------ *)
\* PIPELINE_LLM_LIMIT below PIPELINE_BATCH_SIZE, as in the defaults (50 and
\* 100): one cycle can create more clusters than its LLM analysis takes.
NarrowLimit == 1

\* run 170-177 and run_cycle 136, with the wider batch.
CycleStartWide ==
  /\ wk.pc = "sleep"
  /\ wk' = [Sleeping EXCEPT !.pc = "norm",
                            !.owed = wk.dedupFailed /\ Backlog # {},
                            !.cycled = TRUE,
                            !.again = wk.cycled /\ Len(raw) = wk.seen,
                            !.pending = PendingArticles # {},
                            !.seen = Len(raw),
                            !.before = Tables]
  /\ NormStart(WideBatch)
  /\ UNCHANGED <<db, tx, dd, fails, now, bot, analyzed, en>>

\* run_cycle 146-150, with the narrower limit.
CycleLLMNarrow ==
  /\ wk.pc = "gate"
  /\ IF wk.dedup_count > 0 \/ wk.normalized_count > 0
     THEN /\ wk' = [wk EXCEPT !.pc = "llm", !.ranLLM = TRUE]
          /\ EnStart(1, NarrowLimit)
     ELSE /\ wk' = [wk EXCEPT !.pc = "sleep"]
          /\ UNCHANGED <<analyzed, en>>
  /\ UNCHANGED <<norm, db, tx, dd, fails, now, bot, raw, nz>>

NextWide ==
  \/ Ingest
  \/ CycleStartWide
  \/ CycleNormArticle
  \/ CycleDedup
  \/ CycleDedupStep
  \/ CycleDedupFail
  \/ CycleDedupReturn
  \/ CycleLLMNarrow
  \/ CycleLLMStep
  \/ CycleEnd
  \/ Shutdown

SpecWide == Init /\ [][NextWide]_vars

(* ============================== claims =============================== *)
MembersOf(t, c) == {m \in t.members : m.cid = c}

\* The current article has been handled to its end (its high-water mark is
\* committed): the loop is at the next article, or has returned its count.
ArticleDone ==
  \/ dd.pc = "embed" /\ dd.i > 1
  \/ dd.pc = "ret" /\ dd.failedAt = "" /\ dd.processed > 0

\* C2: after process_new_batch has handled an article, every story cluster
\* has doc_count = sum of the counts of domains_json = number of its
\* cluster_members rows.
C2_CountsAgree ==
  ArticleDone =>
    \A c \in DOMAIN db.clusters :
      /\ db.clusters[c].doc_count = DomainSum(db.clusters[c])
      /\ db.clusters[c].doc_count = Cardinality(MembersOf(db, c))

\* C3: in every state, committed or inside the open transaction, a
\* normalized id has cluster_members rows in at most one cluster.
C3_OneClusterPerDoc ==
  \A t \in {db, tx} :
    \A m1, m2 \in t.members : m1.nid = m2.nid => m1.cid = m2.cid

\* C3's case: an article was processed again after a failed attempt that had
\* committed its member row (the upsert hit the conflict branch, so the
\* cluster counts one more document than it has members).
C3_Witness ==
  /\ fails > 0
  /\ dd.pc = "ret" /\ dd.failedAt = ""
  /\ \E m \in db.members :
       db.clusters[m.cid].doc_count > Cardinality(MembersOf(db, m.cid))

\* C4: the committed last_vectorized_id never decreases.
C4_HighWaterMarkMonotone == [][db'.lastVec >= db.lastVec]_vars

\* C4's case: the mark reached the last article after a failure and a new run.
C4_Witness == fails > 0 /\ db.lastVec = MaxDocs

\* C6: when a step from add_member to recompute_scores raises, the mark stays
\* below the article, and the article is the first one the next run fetches.
C6_FailedArticleIsRetried ==
  (dd.pc = "ret" /\ dd.failedAt \in {"add", "links", "scores"}) =>
    /\ db.lastVec < Doc
    /\ tx.lastVec < Doc
    /\ Head(fetch_new_normalized(tx.lastVec)) = Doc

\* C6's case: add_member has committed and the next step raised.
C6_Witness ==
  /\ dd.pc = "ret" /\ dd.failedAt = "links"
  /\ \E m \in db.members : m.nid = Doc

\* C7: when the processing of an article raises before its high-water mark is
\* committed, the committed tables are what they were before the article.
C7_FailedArticleLeavesNoTrace ==
  (dd.pc = "ret" /\ dd.failedAt # "") => db = dd.snap

(* ---- the outcome of the classification, read when add_member is next -- *)
Classified == dd.pc = "add"

\* What the step did, read from the tables: it joined a cluster that existed
\* when the article began, or it appended a new cluster.
Joined ==
  /\ dd.cid \in DOMAIN dd.snap.clusters
  /\ Len(db.clusters) = Len(dd.snap.clusters)

NewClusterCreated ==
  /\ Len(db.clusters) = Len(dd.snap.clusters) + 1
  /\ dd.cid = Len(db.clusters)

NbId(a) == dd.neighbors[a][1]
NbSim(a) == dd.neighbors[a][2]
NbCluster(a) == get_cluster_of_doc(db, NbId(a))
NbGuards(a) ==
  /\ norm[NbId(a)].lang = norm[Doc].lang
  /\ norm[NbId(a)].t # NoTime
  /\ Abs(dd.t_doc - norm[NbId(a)].t) <= WINDOW_HOURS

\* The neighbours other than the article itself, and the most similar ones.
Others == {a \in DOMAIN dd.neighbors : NbId(a) # Doc}
Highest == {a \in Others : \A b \in Others : NbSim(a) >= NbSim(b)}

\* C5 as stated: the highest neighbour similarity alone decides.  At 0.95 or
\* more the article joins that neighbour's cluster; in [0.89, 0.95), with the
\* same language and within 48 h, it joins that neighbour's cluster; in every
\* other case a new cluster is created.
C5_HighestNeighbourDecides ==
  Classified =>
    IF \E a \in Highest : NbSim(a) >= TAU_DUP
    THEN Joined /\ \E a \in Highest : dd.cid = NbCluster(a)
    ELSE IF \E a \in Highest : NbSim(a) >= TAU_STORY /\ NbGuards(a)
    THEN Joined /\ \E a \in Highest : NbGuards(a) /\ dd.cid = NbCluster(a)
    ELSE NewClusterCreated

DupCandidates == {a \in DOMAIN dd.neighbors :
                    NbSim(a) >= TAU_DUP /\ NbCluster(a) # NoCluster}
StoryCandidates == {a \in DOMAIN dd.neighbors :
                      /\ NbSim(a) >= TAU_STORY /\ NbSim(a) < TAU_DUP
                      /\ NbGuards(a) /\ NbCluster(a) # NoCluster}
Earliest(S) == CHOOSE a \in S : \A b \in S : a <= b

\* C5 as amended: every neighbour of the search result is examined, in
\* descending similarity.  The article joins the cluster of the first
\* neighbour at 0.95 or more that has a cluster; failing that, the cluster of
\* the first neighbour in [0.89, 0.95) that has the same language, a
\* publication time within 48 h and a cluster; otherwise a new cluster is
\* created.
C5_FirstMatchDecides ==
  Classified =>
    IF DupCandidates # {}
    THEN Joined /\ dd.cid = NbCluster(Earliest(DupCandidates))
    ELSE IF StoryCandidates # {}
    THEN Joined /\ dd.cid = NbCluster(Earliest(StoryCandidates))
    ELSE NewClusterCreated

\* C5's case: the most similar neighbour is in the story band and fails a
\* guard, and the article joined through a less similar neighbour.
C5_Witness ==
  /\ Classified /\ Joined
  /\ \E a \in Highest : NbSim(a) < TAU_DUP /\ NbSim(a) >= TAU_STORY
  /\ \A a \in Highest : ~NbGuards(a)

\* C1: whatever the interleaving of the enricher workers, llm_analyzed_news
\* holds at most one row per cluster id.
C1_AtMostOneRowPerCluster ==
  \A a, b \in DOMAIN analyzed :
    analyzed[a].id_cluster = analyzed[b].id_cluster => a = b

\* C1's case: a worker passed the pre-check for a cluster, another worker
\* inserted the cluster's row, and the first worker's insert met the conflict.
C1_Witness ==
  \E w \in Enrichers :
    /\ en[w].outcome = "conflict"
    /\ Len(analyzed) > 0

\* C8: a worker cycle that began with normalized articles left above the
\* high-water mark by the failed Deduplicator run of the cycle before has
\* run the Deduplicator by the time it ends.
C8_FailedDedupRunsNextCycle ==
  (wk.pc = "sleep" /\ wk.owed) => wk.ranDedup

\* C9: in a worker cycle the Deduplicator runs only if the Normalizer
\* normalized more than 0 articles, and the LLM Enricher runs only if the
\* Deduplicator processed more than 0 documents.
C9_StageRunsOnlyAfterWork ==
  /\ wk.ranDedup => wk.normalized_count > 0
  /\ wk.ranLLM => wk.dedup_count > 0

\* C10: no llm_analyzed_news row comes from an LLM response that could not
\* be parsed as JSON.
C10_ParseFailureInsertsNoRow ==
  \A a \in DOMAIN analyzed : analyzed[a].reasoning # "json_parse_error"

\* C11: no llm_analyzed_news row comes from an LLM call that timed out or
\* failed with another request error.
C11_RequestErrorInsertsNoRow ==
  \A a \in DOMAIN analyzed : analyzed[a].reasoning # "request_error"

\* C12: an insert by a worker returns an id exactly when the cluster has no
\* row yet, and then adds the one row; an insert that finds the row of
\* another worker adds nothing and the worker counts the cluster as skipped,
\* not as processed and not as an error.
C12_RaceLoserCountsSkipped ==
  [][\A w \in DOMAIN en :
       (en[w].pc = "insert" /\ en'[w].pc # "insert") =>
         IF HasRow(analyzed, Cluster(w))
         THEN /\ analyzed' = analyzed
              /\ en'[w].outcome = "conflict"
              /\ en'[w].skipped = en[w].skipped + 1
              /\ en'[w].processed = en[w].processed
              /\ en'[w].errors = en[w].errors
         ELSE /\ Len(analyzed') = Len(analyzed) + 1
              /\ analyzed'[Len(analyzed')].id_cluster = Cluster(w)
              /\ en'[w].outcome = "inserted"
              /\ en'[w].processed = en[w].processed + 1
              /\ en'[w].skipped = en[w].skipped
              /\ en'[w].errors = en[w].errors]_vars

\* C12's case: two workers raced for the only row there is; one inserted it
\* and counts one processed cluster, the other met the conflict and counts
\* one skipped cluster.
C12_Witness ==
  /\ Len(analyzed) = 1
  /\ \E w1, w2 \in DOMAIN en :
       /\ w1 # w2
       /\ en[w1].outcome = "inserted" /\ en[w1].processed = 1
       /\ en[w2].outcome = "conflict" /\ en[w2].skipped = 1
       /\ en[w2].processed = 0 /\ en[w2].errors = 0

\* C13 as stated: a worker cycle that ran after another one, with no raw
\* article arrived since that one began, ends with the normalized_articles,
\* vectors, story_clusters, cluster_members and llm_analyzed_news rows it
\* began with.
C13_SecondCycleChangesNothing ==
  (wk.pc = "sleep" /\ wk.again) => Tables = wk.before

\* C13 as amended: the same, for a second cycle that begins with no raw
\* article that passes the filters above the Normalizer's high-water mark
\* (the batch of the first cycle reached the last raw article).
C13_SecondCycleAfterFullBatchChangesNothing ==
  (wk.pc = "sleep" /\ wk.again /\ ~wk.pending) => Tables = wk.before

\* C13's case: the second cycle has ended; the first one left normalized
\* articles above last_vectorized_id or clusters without an analyzed row,
\* and the second one left them as they were.
C13_Witness ==
  /\ wk.pc = "sleep" /\ wk.again /\ ~wk.pending
  /\ \/ Backlog # {}
     \/ \E c \in DOMAIN db.clusters : ~HasRow(analyzed, c)

\* The clustering: the sets of normalized ids that share a cluster.
Partition(t) ==
  {{m.nid : m \in MembersOf(t, c)} : c \in DOMAIN t.clusters} \ {{}}

\* The tables after one process_new_batch run, begun at hour clock, has
\* handled the articles i, i + 1, ... of the sequence on the tables t.
RECURSIVE OneRun(_, _, _, _)
OneRun(t, index, i, clock) ==
  IF i > Len(norm) THEN t
  ELSE LET t_doc == IF norm[i].t = NoTime THEN clock ELSE norm[i].t
           site == _domain(norm[i].host)
           t1 == [t EXCEPT !.vectors = @ \cup {i}]
           neighbors == CHOOSE nb \in search(Append(index, i), norm[i].emb,
                                             K_NEIGHBORS) : TRUE
           r == decide_cluster(t1, neighbors, norm[i].lang, t_doc)
           t2 == IF r.cid = NoCluster
                 THEN ensure_cluster(t1, norm[i].lang, i, site, t_doc)
                 ELSE t1
           cid == IF r.cid = NoCluster THEN Len(t2.clusters) ELSE r.cid
       IN OneRun(add_member(t2, cid, i, i, site, t_doc), Append(index, i),
                 i + 1, clock)

\* C14: whenever the Deduplicator has handled a sequence of articles, in
\* however many runs, the partition into clusters is the one that a single
\* run over the same sequence produces.
C14_SameSequenceSamePartition ==
  (dd.pc = "idle" /\ fails = 0 /\ db.lastVec = Len(norm)) =>
    Partition(db) = Partition(OneRun(EmptyTables, <<>>, 1, StartHour))

MemberTimes(t, c) == {m.time_utc : m \in MembersOf(t, c)}

\* C15: every story cluster that has members has first_time equal to the
\* least and last_time equal to the greatest time_utc of its cluster_members
\* rows, in the committed tables and inside the open transaction.
C15_TimesAreMemberExtremes ==
  \A t \in {db, tx} :
    \A c \in DOMAIN t.clusters :
      MemberTimes(t, c) # {} =>
        /\ t.clusters[c].first_time \in MemberTimes(t, c)
        /\ t.clusters[c].last_time \in MemberTimes(t, c)
        /\ \A x \in MemberTimes(t, c) :
             t.clusters[c].first_time <= x /\ x <= t.clusters[c].last_time

\* C16: whatever a cluster's age, domain set and document count, the hotness
\* recompute_scores stores lies in [0, 1] (here in hundred-thousandths).
C16_HotnessWithinUnitInterval ==
  \A t \in {db, tx} : \A c \in DOMAIN t.clusters :
    t.clusters[c].hotness >= 0 /\ t.clusters[c].hotness <= 100000

\* C16's case: recompute_scores has stored the hotness of a fresh cluster
\* with the heaviest source and at least four domains, where the novelty,
\* source and confirmation factors are all 1.
C16_Witness ==
  /\ 1 \in DOMAIN db.clusters
  /\ db.clusters[1].hotness > 0
  /\ now - db.clusters[1].first_time <= NOVELTY_HOURS
  /\ <<"sec", "gov">> \in DomainKeys(db.clusters[1])
  /\ Cardinality(DomainKeys(db.clusters[1])) >= 4
  /\ db.clusters[1].hotness =
       30000 + 20000 + 20 * Velocity(DomainSum(db.clusters[1])) + 15000 + 3000

\* C17: once more than 6 hours have passed since a cluster's first_time, the
\* hotness the cluster carries is the one computed with novelty 0.3 (lower
\* than the one it had at age <= 6 h), also when no member was added since.
\* Read between two runs of process_new_batch that did not fail.
C17_HotnessDecaysAfterSixHours ==
  (dd.pc = "idle" /\ fails = 0 /\ db.lastVec = Len(norm)) =>
    \A c \in DOMAIN db.clusters :
      now - db.clusters[c].first_time > NOVELTY_HOURS =>
        /\ Novelty(db.clusters[c].first_time, now) = 300
        /\ db.clusters[c].hotness = Hotness(db.clusters[c], now)
        /\ db.clusters[c].hotness <
             Hotness(db.clusters[c], db.clusters[c].first_time + NOVELTY_HOURS)

\* C18: after a batch, a raw article of the batch that the Normalizer dropped
\* is not returned by get_unprocessed_articles any more.
C18_DroppedArticleNotReturnedAgain ==
  nz.pc = "ret" =>
    \A k \in DOMAIN nz.articles :
      raw[nz.articles[k]].verdict = "drop" =>
        nz.articles[k] \notin Range(get_unprocessed_articles(NormBatch))

C20_AlertSentAtMostOnce ==
  \A k \in DOMAIN bot.sent : bot.sent[k] <= 1

\* C20's case: a later tick returned a row again whose alert a subscriber had
\* received, and the monitor is about to pass it over.
C20_Witness ==
  /\ bot.pc = "news"
  /\ bot.n <= Len(bot.hot_news)
  /\ already_notified(News)
  /\ \E chat \in Chats : Sent(News, chat) = 1

\* C21: a row at or above the threshold is returned by
\* get_hot_news_for_monitor in some iteration of the monitor, provided the
\* monitor never ran two iterations in a row without its query: when the
\* monitor sleeps and its next query comes too late for the row (the query
\* runs one check interval from now and looks back two), a query has
\* returned the row already.
C21_HotRowIsReturned ==
  (bot.pc = "sleep" /\ bot.unpolled < 2) =>
    \A i \in DOMAIN bot.news :
      (/\ bot.news[i].ai_hotness >= hotness_threshold
       /\ bot.news[i].created_at < bot.clock + 1 - 2) => i \in bot.returned

\* C22: the monitor sends alerts to active subscribers only: every send goes
\* to a chat whose is_active flag is true at the moment of the send.
C22_AlertsOnlyToActiveSubscribers ==
  [][\A k \in DOMAIN bot'.sent :
       (k \notin DOMAIN bot.sent \/ bot'.sent[k] > bot.sent[k]) =>
         k[2] \in bot.active]_vars

\* C23: every card or alert sent in Markdown mode is the output of the
\* Markdown sanitizer, and a send that the backend answered with a parse
\* error is followed by a send of the same message as escaped plain text.
\* Read when the sends of a card are over.
C23_MarkdownSanitizedWithPlainFallback ==
  bot.pc = "done" =>
    LET message == IF bot.path = "alert" THEN format_hot_news_alert(bot.text)
                   ELSE bot.text
    IN \A k \in DOMAIN bot.wire :
         /\ bot.wire[k].parse_mode = "Markdown" =>
              bot.wire[k].text = _sanitize_markdown(message)
         /\ bot.wire[k].result = "parse_error" =>
              /\ k + 1 \in DOMAIN bot.wire
              /\ bot.wire[k + 1].parse_mode = "None"
              /\ bot.wire[k + 1].text = _escape_markdown_special_chars(message)

\* The same property, of the detailed-analysis replies alone.
C23_RepliesSanitizedWithPlainFallback ==
  bot.path = "reply" => C23_MarkdownSanitizedWithPlainFallback

\* C24: when Ctrl-C has made PipelineWorker.run exit, the stage that was
\* running has finished, and no article has part of its dedup effects
\* committed (a vectors row or a member row) without its high-water mark.
\* Read of runs in which no stage raised an exception.
C24_ShutdownAfterStageLeavesNoPartialArticle ==
  (wk.pc = "stopped" /\ fails = 0) =>
    /\ nz.pc \in {"idle", "ret"}
    /\ dd.pc \in {"idle", "ret"}
    /\ \A w \in DOMAIN en : en[w].pc \in {"idle", "ret"}
    /\ \A n \in DOMAIN norm :
         (n \in db.vectors \/ \E m \in db.members : m.nid = n) =>
           n <= db.lastVec

\* The second half alone, of a shutdown that arrives between two stages or
\* between two cycles.
C24_ShutdownBetweenStagesLeavesNoPartialArticle ==
  (/\ wk.pc = "stopped" /\ fails = 0
   /\ nz.pc \in {"idle", "ret"}
   /\ dd.pc \in {"idle", "ret"}) =>
    \A n \in DOMAIN norm :
      (n \in db.vectors \/ \E m \in db.members : m.nid = n) =>
        n <= db.lastVec

\* C25: no two rows of the raw articles table have the same title, after any
\* interleaving of ingestion runs (parse_and_save_rss runs and
\* _save_articles calls).
C25_NoTwoRawRowsShareTitle ==
  \A i, j \in DOMAIN raw.rows :
     i # j => raw.rows[i].title # raw.rows[j].title

\* Where the table was created with title unique, the rows keep distinct
\* titles under the same interleavings.
C25_TitleUniqueTableKeepsTitlesDistinct ==
  raw.title_unique =>
    \A i, j \in DOMAIN raw.rows :
       i # j => raw.rows[i].title # raw.rows[j].title

\* A neighbour through which the article may have joined its cluster: it is
\* in that cluster, and it is a duplicate or a story-band neighbour that
\* passes the language and time guards.
JoinedThrough(a) ==
  /\ NbCluster(a) = dd.cid
  /\ \/ NbSim(a) >= TAU_DUP
     \/ NbSim(a) >= TAU_STORY /\ NbGuards(a)

InStoryBand(a) == NbSim(a) >= TAU_STORY /\ NbSim(a) < TAU_DUP

\* C26: an article never joins a cluster through a story-band neighbour of
\* another language or published more than 48 h away: the cluster it joins is
\* the cluster of a duplicate or of a story-band neighbour that passes both
\* guards.  When every story-band neighbour fails a guard and no neighbour is
\* at 0.95 or more, a new cluster is created.
C26_StoryBandGuardsBlockMerge ==
  Classified =>
    /\ Joined => \E a \in Others : JoinedThrough(a)
    /\ (\A a \in Others : NbSim(a) < TAU_DUP /\ (InStoryBand(a) => ~NbGuards(a)))
         => NewClusterCreated

\* C26's case: the article has a story-band neighbour of another language
\* and a story-band neighbour of its language published more than 48 h away,
\* no neighbour at 0.95 or more, and a new cluster was created for it.
C26_Witness ==
  /\ Classified /\ NewClusterCreated
  /\ \A a \in Others : NbSim(a) < TAU_DUP
  /\ \E a \in Others : InStoryBand(a) /\ norm[NbId(a)].lang # norm[Doc].lang
  /\ \E a \in Others :
       /\ InStoryBand(a) /\ norm[NbId(a)].lang = norm[Doc].lang
       /\ Abs(dd.t_doc - norm[NbId(a)].t) > WINDOW_HOURS

\* C27: the article being classified is not among its own neighbours, and
\* decide_cluster never assigns it to a cluster on the similarity of the
\* article with itself, also when the article is processed again after a
\* failed attempt that had inserted its member row.
C27_NeverClassifiedBySelfSimilarity ==
  Classified =>
    ~(DupCandidates # {} /\ NbId(Earliest(DupCandidates)) = Doc)

\* The first half of C27 alone: the search result handed to decide_cluster
\* does not contain the article.
C27_SelfNotAmongNeighbours ==
  Classified => \A a \in DOMAIN dd.neighbors : NbId(a) # Doc

\* The processing of the current cluster ends in this step with an error: a
\* failed statement, a missing representative article, or a failed LLM call.
ClusterEndsInError ==
  /\ en[1].pc \in {"check", "rep", "insert"}
  /\ en'[1].k # en[1].k
  /\ \/ en'[1].outcome \in {"db_error", "no_article"}
     \/ en[1].analysis.reasoning \in {"request_error", "json_parse_error"}

\* C28: an error while processing one cluster does not stop the batch: the
\* next cluster fetched in the same batch is attempted, and the connection
\* is usable for it.
C28_ErrorDoesNotStopBatch ==
  [][ClusterEndsInError =>
       /\ en'[1].conn = "ok"
       /\ en[1].k < Len(en[1].clusters) =>
            /\ en'[1].pc = "check"
            /\ en'[1].k = en[1].k + 1
            /\ en'[1].clusters = en[1].clusters]_vars

\* C28's case: a statement failed on the first cluster of a batch of two,
\* and the pre-check of the second cluster has run on the same connection.
C28_Witness ==
  /\ en[1].pc = "rep" /\ en[1].k = 2
  /\ en[1].outcome = "db_error"
  /\ en[1].skipped = 1

\* C29: a DB error while inserting one normalized article is counted in
\* error_count, and the following articles of the batch are inserted: an
\* article that passes the filters, and whose row the server accepts, gets
\* its row and is counted in processed_articles.
C29_InsertErrorDoesNotPoisonBatch ==
  [][InsertIsNext =>
       LET id == nz.articles[nz.j] IN
         IF raw[id].verdict = "rejected"
         THEN /\ norm' = norm
              /\ nz'.error_count = nz.error_count + 1
              /\ nz'.processed_articles = nz.processed_articles
         ELSE /\ norm' = Append(norm, normalize_article(id))
              /\ nz'.processed_articles = nz.processed_articles + 1
              /\ nz'.error_count = nz.error_count]_vars

\* The first half of C29 alone: every insert that raises is counted in
\* error_count and leaves no row.
C29_InsertErrorIsCounted ==
  [][(InsertIsNext /\ norm' = norm) =>
       nz'.error_count = nz.error_count + 1]_vars

\* The article the loop of process_articles_batch is at is one that
\* normalize_article drops (spam, or quality below 0.2).
DropIsNext ==
  /\ nz.pc = "batch"
  /\ nz.articles[nz.j] \notin get_processed_articles
  /\ raw[nz.articles[nz.j]].verdict = "drop"

\* C30: a raw article that the Normalizer classifies as spam or scores below
\* 0.2 produces no normalized_articles row and adds exactly one to
\* filtered_articles; processed_articles and error_count stay as they are.
C30_DroppedArticleCountsFiltered ==
  [][DropIsNext =>
       /\ norm' = norm
       /\ nz'.filtered_articles = nz.filtered_articles + 1
       /\ nz'.processed_articles = nz.processed_articles
       /\ nz'.error_count = nz.error_count]_vars

\* C30's case: a batch of an article whose insert raised and an article
\* that was dropped has ended; the dropped one has no row.
C30_Witness ==
  /\ nz.pc = "ret"
  /\ nz.filtered_articles = 1 /\ nz.processed_articles = 0
  /\ nz.error_count = 1
  /\ \E k \in DOMAIN nz.articles :
       /\ raw[nz.articles[k]].verdict = "drop"
       /\ nz.articles[k] \notin get_processed_articles

\* The score of the article without the part that the content length adds:
\* title, link and source, then the spam rule.
ScoreWith(a, content_part) ==
  LET s4 == content_part + (IF a.title > 10 THEN 200 ELSE 0)
              + (IF a.link THEN 100 ELSE 0) + (IF a.source THEN 100 ELSE 0)
  IN Min(IF ~a.spam THEN s4 + 300 ELSE (s4 * 3) \div 10, 1000)

\* C31: calculate_quality_score adds 0.3 for every content length >= 500 and
\* 0.2 for every content length from 200 to 499, for all combinations of the
\* title, link, source and spam conditions (for content that is scored at
\* all: 30 characters or more once stripped).
C31_LengthBandsIncludeBoundaries ==
  (nz.pc = "scored" /\ nz.article.stripped >= 30) =>
    nz.score = ScoreWith(nz.article,
                         IF nz.article.content >= 500 THEN 300
                         ELSE IF nz.article.content >= 200 THEN 200 ELSE 0)

\* What the code does: the bands are content length > 500 and > 200.
C31_LengthBandsExcludeBoundaries ==
  (nz.pc = "scored" /\ nz.article.stripped >= 30) =>
    nz.score = ScoreWith(nz.article,
                         IF nz.article.content > 500 THEN 300
                         ELSE IF nz.article.content > 200 THEN 200 ELSE 0)

\* C32: a send that raises for one subscriber is counted as failed and the
\* loop goes on to the next subscriber of the row; the row is done only
\* after the last subscriber; last_notification_at is updated only for
\* subscribers whose send succeeded.
C32_FailedSendDoesNotBlockOthers ==
  [][(bot.pc = "send" /\ bot.s <= Len(bot.subscribers)) =>
       /\ bot'.pc = "send" /\ bot'.s = bot.s + 1
       /\ bot'.delivered = bot.delivered =>
            /\ bot'.failed_count = bot.failed_count + 1
            /\ bot'.sent_count = bot.sent_count
       /\ bot'.updated \subseteq bot'.delivered]_vars

\* C32's case: of the two subscribers of a row the first one's send raised
\* and the second one's succeeded; only the second one's
\* last_notification_at was updated.
C32_Witness ==
  /\ bot.pc = "send" /\ bot.s = 3
  /\ bot.failed_count = 1 /\ bot.sent_count = 1
  /\ bot.delivered = {<<bot.n, bot.subscribers[2]>>}
  /\ bot.updated = bot.delivered

\* C33: for every input text, the output of _sanitize_markdown contains an
\* even number of '*', an even number of '_', an even number of code-block
\* markers and an even number of single inline backticks.
C33_SanitizedMarkersAreEven ==
  bot.pc = "sanitized" =>
    /\ Count(bot.out, "*") % 2 = 0
    /\ Count(bot.out, "_") % 2 = 0
    /\ CountCodeBlocks(bot.out) % 2 = 0
    /\ CountInlineCode(bot.out) % 2 = 0

\* The part of C33 about bold and italic markers alone.
C33_SanitizedStarsAreEven ==
  bot.pc = "sanitized" =>
    /\ Count(bot.out, "*") % 2 = 0
    /\ Count(bot.out, "_") % 2 = 0

\* The clusters get_unprocessed_clusters can return, and those of them that
\* process_cluster can give a row: get_cluster_representative_article finds
\* a member.
Unprocessed == {c \in DOMAIN db.clusters : ~HasRow(analyzed, c)}

Insertable == {c \in Unprocessed :
                 get_cluster_representative_article(c) # {NoArticle}}

\* C35: process_batch terminates.  Whenever it is at its while condition
\* with fewer than limit inserts done, either no unprocessed cluster remains
\* (it returns) or some unprocessed cluster can be inserted (a pass of the
\* loop can make progress); a pass that can insert nothing would fetch the
\* same clusters again, and so on without end.
C35_ProcessBatchCanReturn ==
  (en[1].pc = "loop" /\ en[1].processed < en[1].limit) =>
    (Unprocessed = {} \/ Insertable # {})

\* C37: in every state that persists after process_new_batch has returned
\* or failed, every story_clusters row has at least one cluster_members row.
C37_EveryClusterHasMember ==
  dd.pc = "ret" => \A c \in DOMAIN db.clusters : MembersOf(db, c) # {}

\* The same for the runs that returned without an exception.
C37_EveryClusterHasMemberAfterReturn ==
  (dd.pc = "ret" /\ dd.failedAt = "" /\ fails = 0) =>
    \A c \in DOMAIN db.clusters : MembersOf(db, c) # {}

\* process_new_batch is between two articles: before its first fetch, at the
\* top of its loop, or left by return or by an exception.
BetweenArticles == dd.pc \in {"idle", "embed", "ret"}

\* C36: in every state between articles, every normalized article with
\* id <= last_vectorized_id has its vectors row and exactly one
\* cluster_members row, and every cluster_members row refers to an article
\* that has a vectors row.
C36_MarkedArticlesAreVectorizedAndClustered ==
  BetweenArticles =>
    /\ \A n \in DOMAIN norm :
         n <= db.lastVec =>
           /\ n \in db.vectors
           /\ Cardinality({m \in db.members : m.nid = n}) = 1
    /\ \A m \in db.members : m.nid \in db.vectors

\* C36's case: a run was left by an exception while it handled an article,
\* and a later run has brought the mark to the last article.
C36_Witness ==
  /\ dd.pc = "ret" /\ dd.failedAt = ""
  /\ fails > 0
  /\ db.lastVec = MaxDocs
  /\ Cardinality(db.members) = MaxDocs

\* C34: an exception raised in a stage of a worker cycle does not keep the
\* worker from ending the cycle and starting another one.  After
\* run_deduplication caught an exception, the LLM analysis of the cycle is
\* never at its while condition with inserts still requested and nothing
\* among the unprocessed clusters that can be inserted: from there the
\* stage does not return, the cycle does not end and no cycle follows.
C34_CycleEndsAfterException ==
  (/\ wk.pc = "llm" /\ wk.dedupFailed
   /\ en[1].pc = "loop" /\ en[1].processed < en[1].limit) =>
    (Unprocessed = {} \/ Insertable # {})

\* The exception itself is caught: run_deduplication returns after it and
\* run_cycle goes on to its next step, unless the shutdown signal arrives.
C34_ExceptionIsCaught ==
  [][(wk.pc = "dedup" /\ dd.pc = "ret" /\ dd.failedAt # "") =>
       wk'.pc \in {"gate", "stopped"}]_vars

\* C38: every raw article that passes the filters is eventually normalized.
\* When a batch has returned and a passing article still waits above the
\* high-water mark, the next batch is not the batch that was just handled:
\* the batches move towards the article.  (Arrivals are appended after the
\* waiting articles, so a full batch that repeats once repeats for ever.)
C38_PassingArticleIsReached ==
  (nz.pc = "ret" /\ PendingArticles # {}) =>
    get_unprocessed_articles(NormBatch) # nz.articles

\* The same when no dropped article lies below the waiting one.
C38_PassingArticleIsReachedWithoutDrops ==
  (/\ nz.pc = "ret" /\ PendingArticles # {}
   /\ \A id \in DOMAIN raw : raw[id].verdict = "ok") =>
    get_unprocessed_articles(NormBatch) # nz.articles

\* The clusters that had a member and no llm_analyzed_news row when the
\* cycle began (wk.before holds the tables of that moment).
PendingAtCycleStart ==
  IF wk.before = <<>> THEN {}
  ELSE {c \in DOMAIN wk.before[2].clusters :
          /\ MembersOf(wk.before[2], c) # {}
          /\ ~HasRow(wk.before[3], c)}

\* C39: every story cluster that has a member eventually gets its
\* llm_analyzed_news row, also when no raw article arrives any more.  A
\* cycle that ran after another one with no raw article arrived since, and
\* that began with such clusters waiting, has given a row to at least one of
\* them by the time it ends.  (Such a cycle begins and ends with the same
\* tables when it analyses nothing, and so does every cycle after it.)
C39_WaitingClusterIsAnalysed ==
  (wk.pc = "sleep" /\ wk.again /\ ~wk.pending /\ PendingAtCycleStart # {}) =>
    \E c \in PendingAtCycleStart : HasRow(analyzed, c)
=============================================================================
